---------------------------- MODULE Spec2Model ----------------------------
(***************************************************************************)
(* A model of the Sippet SIP message parser (c_src/parser.cc, utils.cc,    *)
(* tokenizer.h).  A byte is a one-character string; a byte string is a     *)
(* sequence of bytes; a C++ iterator into a string s is an index in        *)
(* 1..Len(s)+1, where Len(s)+1 is s.end().  Erlang terms are pairs         *)
(* <<tag, payload>>.                                                       *)
(***************************************************************************)
EXTENDS Integers, Sequences, FiniteSets, TLC

VARIABLES
    atoms,        \* the VM's atom table: the names enif_make_existing_atom finds
    raw_message,  \* the bytes handed to Parse
    pc,           \* "ready" before the call, "done" after it
    input,        \* Parse's local: the assembled (unfolded) header block
    result,       \* the term Parse returned
    hit,          \* HeadersIterator: the iterator object under GetNext
    yielded       \* HeadersIterator: the (name, values) pairs GetNext has produced

vars == <<atoms, raw_message, pc, input, result, hit, yielded>>

-----------------------------------------------------------------------------
(* Bytes and character classes *)

CR  == "\r"
LF  == "\n"
SP  == " "
TAB == "\t"
\* The byte std::string keeps after its last character.
NUL == "NUL"
\* Outcome of a checked-iterator build on dereferencing end(): the process aborts.
TRAP == "TRAP"

SIP_LWS == {SP, TAB}

UpperCase == <<"A","B","C","D","E","F","G","H","I","J","K","L","M",
               "N","O","P","Q","R","S","T","U","V","W","X","Y","Z">>
LowerCase == <<"a","b","c","d","e","f","g","h","i","j","k","l","m",
               "n","o","p","q","r","s","t","u","v","w","x","y","z">>
Digits    == <<"0","1","2","3","4","5","6","7","8","9">>

IsDigit(c) == \E i \in 1..10 : Digits[i] = c
DigitVal(c) == (CHOOSE i \in 1..10 : Digits[i] = c) - 1

ToLowerASCIIChar(c) ==
    IF \E i \in 1..26 : UpperCase[i] = c
    THEN LowerCase[CHOOSE i \in 1..26 : UpperCase[i] = c]
    ELSE c

ToLowerASCII(s) == [i \in 1..Len(s) |-> ToLowerASCIIChar(s[i])]

LowerCaseEqualsASCII(s, lowercase_ascii) ==
    /\ Len(s) = Len(lowercase_ascii)
    /\ \A i \in 1..Len(s) : ToLowerASCIIChar(s[i]) = lowercase_ascii[i]

IsLWS(c) == c \in SIP_LWS

IsQuote(c) == c = "\"" \/ c = "'"

\* The bytes of the model's alphabet that RFC 2616 excludes from a token:
\* the separators and the control characters.
NonTokenChars ==
    {"(", ")", "<", ">", "@", ",", ";", ":", "\\", "\"", "/", "[", "]",
     "?", "=", "{", "}", SP, TAB, CR, LF, NUL}

IsTokenChar(c) == c \notin NonTokenChars

IsToken(s) == Len(s) > 0 /\ \A i \in 1..Len(s) : IsTokenChar(s[i])

\* std::string(b, e) for iterators b <= e.
Range(s, b, e) == IF b >= e THEN << >> ELSE SubSeq(s, b, e - 1)

\* std::find(b, e, c): the first index in [b, e) holding c, else e.
RECURSIVE Find(_, _, _, _)
Find(s, b, e, c) ==
    IF b >= e THEN e ELSE IF s[b] = c THEN b ELSE Find(s, b + 1, e, c)

-----------------------------------------------------------------------------
(* Tokenizer: a cursor cur in [.., end] over s; each operation returns the  *)
(* new cursor.                                                              *)

\* Tokenizer::Skip(chars)
RECURSIVE TokSkipIn(_, _, _, _)
TokSkipIn(s, cur, end, chars) ==
    IF cur = end THEN cur
    ELSE IF s[cur] \notin chars THEN cur
    ELSE TokSkipIn(s, cur + 1, end, chars)

\* Tokenizer::SkipNotIn(chars)
RECURSIVE TokSkipNotIn(_, _, _, _)
TokSkipNotIn(s, cur, end, chars) ==
    IF cur = end THEN cur
    ELSE IF s[cur] \in chars THEN cur
    ELSE TokSkipNotIn(s, cur + 1, end, chars)

\* Tokenizer::SkipTo(c)
TokSkipTo(s, cur, end, c) == TokSkipNotIn(s, cur, end, {c})

\* Skip() without the test for the end of the input.
TokSkipUnchecked(cur, end) == cur + 1

\* Tokenizer::Skip()
TokSkip(cur, end) == IF cur # end THEN cur + 1 ELSE cur

\* Tokenizer::Skip(n)
RECURSIVE TokSkipN(_, _, _)
TokSkipN(cur, end, n) ==
    IF cur # end /\ n > 0 THEN TokSkipN(cur + 1, end, n - 1) ELSE cur

\* The positions a scanning loop dereferences on its way from cur to next:
\* *current_ is evaluated in the loop body, entered under current_ != end_.
TokReads(cur, next, end) == { p \in cur..next : p # end }

\* TrimLWS(&begin, &end): the trimmed range as <<begin, end>>.
RECURSIVE TrimLeading(_, _, _)
TrimLeading(s, b, e) ==
    IF b < e /\ IsLWS(s[b]) THEN TrimLeading(s, b + 1, e) ELSE b

RECURSIVE TrimTrailing(_, _, _)
TrimTrailing(s, b, e) ==
    IF b < e /\ IsLWS(s[e - 1]) THEN TrimTrailing(s, b, e - 1) ELSE e

TrimLWS(s, b, e) ==
    LET Trailing(b1) == <<b1, TrimTrailing(s, b1, e)>>
    IN  Trailing(TrimLeading(s, b, e))

Trimmed(s) ==
    LET Cut(r) == Range(s, r[1], r[2]) IN Cut(TrimLWS(s, 1, Len(s) + 1))

-----------------------------------------------------------------------------
(* Header-block assembler *)

\* The result of one AssembleRawHeaders call: ok is the returned bool, out
\* is *output, oob says the call dereferenced input.end().
AsmResult(ok, out, oob) == [ok |-> ok, out |-> out, oob |-> oob]

RECURSIVE AssembleLoop(_, _, _)
AssembleLoop(in, cur, out) ==
    LET end == Len(in) + 1
        \* after the terminator: the cursor is at next
        AfterTerminator(out1, next) ==
            IF next = end THEN AsmResult(TRUE, out1, FALSE)
            ELSE IF ~IsLWS(in[next])
                 THEN AssembleLoop(in, next, Append(out1, LF))
                 ELSE AssembleLoop(in, next, out1)
        \* after output->append(line_start, line_end)
        AfterLine(line_end, out1) ==
            IF line_end = end THEN AsmResult(TRUE, out1, FALSE)
            ELSE IF in[line_end] = CR /\ line_end + 1 = end
                     \* *tok.current() with the cursor at end of input
                     THEN AsmResult(FALSE, out1, TRUE)
            ELSE IF in[line_end] = CR /\ in[line_end + 1] # LF
                     THEN AsmResult(FALSE, out1, FALSE)
            ELSE AfterTerminator(out1,
                     IF in[line_end] = LF THEN line_end + 1 ELSE line_end + 2)
        Line(line_end) == AfterLine(line_end, out \o Range(in, cur, line_end))
    IN  Line(TokSkipNotIn(in, cur, end, {CR, LF}))

\* A faulty assembler, to test the properties against: it ends every line
\* with a \n, continuation or not, the last line included.
RECURSIVE AssembleEveryLine(_)
AssembleEveryLine(in) ==
    IF in = << >> THEN AsmResult(TRUE, << >>, FALSE)
    ELSE LET Rest(r) ==
                 IF Head(in) = CR THEN r
                 ELSE AsmResult(r.ok, <<Head(in)>> \o r.out, r.oob)
         IN  Rest(AssembleEveryLine(Tail(in)))

\* A faulty assembler, to test the properties against: it copies the input
\* and normalises nothing.
AssembleVerbatim(in) == AsmResult(TRUE, in, FALSE)

AssembleRawHeaders(in) == AssembleLoop(in, 1, << >>)

-----------------------------------------------------------------------------
(* Erlang terms.  A term is <<tag, payload>>: comparing two terms compares  *)
(* the tags first.  An atom's payload is its name as a TLA+ string, a       *)
(* binary's payload is its bytes.                                           *)

MakeAtom(name)    == <<"atom", name>>
MakeBinary(bytes) == <<"bin", bytes>>
MakeInt(n)        == <<"int", n>>
MakeTuple(elems)  == <<"tuple", elems>>
MakeList(elems)   == <<"list", elems>>
MakeMap(pairs)    == <<"map", pairs>>

Tag(x) == x[1]
Val(x) == x[2]

\* enif_is_atom, enif_is_list
IsAtom(x) == Tag(x) = "atom"
IsList(x) == Tag(x) = "list"

\* enif_make_map_put on a map held as a sequence of <<key, value>> pairs:
\* the value of an existing key is replaced in place, a new key is added.
MapPut(pairs, k, v) ==
    IF \E i \in 1..Len(pairs) : pairs[i][1] = k
    THEN [i \in 1..Len(pairs) |-> IF pairs[i][1] = k THEN <<k, v>> ELSE pairs[i]]
    ELSE Append(pairs, <<k, v>>)

\* enif_get_map_value
MapHas(pairs, k) == \E i \in 1..Len(pairs) : pairs[i][1] = k
MapGet(pairs, k) == pairs[CHOOSE i \in 1..Len(pairs) : pairs[i][1] = k][2]

\* How the atoms that an input of the model can spell are written in bytes.
Spelling ==
    [ack       |-> <<"a","c","k">>,
     bye       |-> <<"b","y","e">>,
     cancel    |-> <<"c","a","n","c","e","l">>,
     info      |-> <<"i","n","f","o">>,
     invite    |-> <<"i","n","v","i","t","e">>,
     message   |-> <<"m","e","s","s","a","g","e">>,
     notify    |-> <<"n","o","t","i","f","y">>,
     options   |-> <<"o","p","t","i","o","n","s">>,
     prack     |-> <<"p","r","a","c","k">>,
     publish   |-> <<"p","u","b","l","i","s","h">>,
     pull      |-> <<"p","u","l","l">>,
     push      |-> <<"p","u","s","h">>,
     refer     |-> <<"r","e","f","e","r">>,
     register  |-> <<"r","e","g","i","s","t","e","r">>,
     store     |-> <<"s","t","o","r","e">>,
     subscribe |-> <<"s","u","b","s","c","r","i","b","e">>,
     update    |-> <<"u","p","d","a","t","e">>,
     accept    |-> <<"a","c","c","e","p","t">>,
     allow     |-> <<"a","l","l","o","w">>,
     call_id   |-> <<"c","a","l","l","_","i","d">>,
     content_length |-> <<"c","o","n","t","e","n","t","_","l","e","n","g","t","h">>,
     cseq      |-> <<"c","s","e","q">>,
     subject   |-> <<"s","u","b","j","e","c","t">>,
     supported |-> <<"s","u","p","p","o","r","t","e","d">>,
     ok        |-> <<"o","k">>,
     error     |-> <<"e","r","r","o","r">>,
     x         |-> <<"x">>,
     foo       |-> <<"f","o","o">>]

\* SIP_METHOD rows of method_list.h, lower-cased by LoadMethodAtoms.
MethodAtoms ==
    {"ack", "bye", "cancel", "info", "invite", "message", "notify", "options",
     "prack", "publish", "pull", "push", "refer", "register", "store",
     "subscribe", "update"}

\* enif_make_existing_atom_len: <<found, atom>> for the byte string name
\* against the atom table tbl.
MakeExistingAtom(tbl, name) ==
    IF \E a \in tbl \cap DOMAIN Spelling : Spelling[a] = name
    THEN <<TRUE, MakeAtom(CHOOSE a \in tbl \cap DOMAIN Spelling : Spelling[a] = name)>>
    ELSE <<FALSE, MakeAtom("")>>

\* The canonical form MakeLowerCaseExistingAtom looks up.
Canonical(name) ==
    [i \in 1..Len(name) |->
        IF name[i] = "-" THEN "_" ELSE ToLowerASCIIChar(name[i])]

MakeLowerCaseExistingAtom(tbl, name) == MakeExistingAtom(tbl, Canonical(name))

MakeString(s) == MakeBinary(s)

MakeLowerCaseExistingAtomOrString(tbl, name) ==
    LET Result(r) == IF r[1] THEN r[2] ELSE MakeString(name)
    IN  Result(MakeLowerCaseExistingAtom(tbl, name))

-----------------------------------------------------------------------------
(* Numeric conversion *)

IntMax == 2147483647
IntMin == (-IntMax) - 1
kBase  == 10

\* Base<Sign>::Invoke from the first digit on: <<valid, output>>.
\* neg selects Negative (CheckBounds against min, Increment subtracts).
RECURSIVE NumberLoop(_, _, _, _, _)
NumberLoop(s, begin, current, output, neg) ==
    IF current > Len(s) THEN <<TRUE, output>>
    ELSE IF ~IsDigit(s[current]) THEN <<FALSE, output>>
    ELSE LET d == DigitVal(s[current])
         IN  IF current = begin
             THEN NumberLoop(s, begin, current + 1,
                             IF neg THEN output - d ELSE output + d, neg)
             ELSE IF neg
             THEN IF output < -(IntMax \div kBase)
                     \/ (output = -(IntMax \div kBase) /\ d > (IntMax % kBase) + 1)
                  THEN <<FALSE, IntMin>>
                  ELSE NumberLoop(s, begin, current + 1, output * kBase - d, neg)
             ELSE IF output > IntMax \div kBase
                     \/ (output = IntMax \div kBase /\ d > IntMax % kBase)
                  THEN <<FALSE, IntMax>>
                  ELSE NumberLoop(s, begin, current + 1, output * kBase + d, neg)

BaseInvoke(s, begin, neg) ==
    IF begin > Len(s) THEN <<FALSE, 0>> ELSE NumberLoop(s, begin, begin, 0, neg)

\* IteratorRangeToNumber<int, 10>::Invoke: <<returned bool, *output>>.
\* The leading run skipped is the one LocalIsWhitespace (isspace) accepts.
\* A faulty conversion, to test the properties against: leading whitespace
\* is skipped without clearing valid.
StringToIntSkipsWhitespace(s) ==
    LET From(begin) ==
            IF begin <= Len(s) /\ s[begin] = "-"
            THEN BaseInvoke(s, begin + 1, TRUE)
            ELSE IF begin <= Len(s) /\ s[begin] = "+"
            THEN BaseInvoke(s, begin + 1, FALSE)
            ELSE BaseInvoke(s, begin, FALSE)
    IN  From(TokSkipIn(s, 1, Len(s) + 1, {SP, TAB, CR, LF}))

StringToInt(s) ==
    LET Out(valid, r) == <<valid /\ r[1], r[2]>>
        From(begin) ==
            Out(begin = 1,
                IF begin <= Len(s) /\ s[begin] = "-"
                THEN BaseInvoke(s, begin + 1, TRUE)
                ELSE IF begin <= Len(s) /\ s[begin] = "+"
                THEN BaseInvoke(s, begin + 1, FALSE)
                ELSE BaseInvoke(s, begin, FALSE))
    IN  From(TokSkipIn(s, 1, Len(s) + 1, {SP, TAB, CR, LF}))

-----------------------------------------------------------------------------
(* Start-line parser *)

\* *p for an iterator p into s: the byte there, or the terminator that
\* follows the string's last byte when p is s.end().
Deref(s, p) == IF p <= Len(s) THEN s[p] ELSE NUL

\* while (*p == ' ') ++p;  and  while (*p >= '0' && *p <= '9') ++p;
\* The loops test no bound: they stop at the first byte outside the class.
RECURSIVE ScanWhile(_, _, _)
ScanWhile(s, p, class) ==
    IF Deref(s, p) \in class THEN ScanWhile(s, p + 1, class) ELSE p

DigitChars == {Digits[i] : i \in 1..10}

\* What a start-line parser hands back: the term, and whether it
\* dereferenced the end() of the whole buffer on the way.
Parsed(term, oob) == [term |-> term, oob |-> oob]

IsStatusLine(s, line_begin, line_end) ==
    /\ line_end - line_begin > 4
    /\ LowerCaseEqualsASCII(Range(s, line_begin, line_begin + 4),
                            <<"s","i","p","/">>)

FindLineEnd(s, begin, end) == TokSkipNotIn(s, begin, end, {CR, LF})

ParseVersion(s, line_begin, line_end) ==
    IF line_end - line_begin < 3
       \/ ~LowerCaseEqualsASCII(Range(s, line_begin, line_begin + 3),
                                <<"s","i","p">>)
    THEN MakeAtom("missing_status_line")
    ELSE
    LET Numbers(major_start, minor_start) ==
            IF minor_start = line_end
            THEN MakeAtom("malformed_version")
            ELSE IF ~IsDigit(s[major_start]) \/ ~IsDigit(s[minor_start])
            THEN MakeAtom("malformed_version_number")
            ELSE MakeTuple(<<MakeInt(DigitVal(s[major_start])),
                             MakeInt(DigitVal(s[minor_start]))>>)
        Major(major_start) ==
            Numbers(major_start,
                    TokSkipIn(s, TokSkip(TokSkipTo(s, major_start, line_end, "."),
                                         line_end),
                              line_end, SIP_LWS))
        Slash(slash) ==
            IF slash = line_end \/ s[slash] # "/"
            THEN MakeAtom("missing_version")
            ELSE Major(TokSkipIn(s, TokSkip(slash, line_end), line_end, SIP_LWS))
    IN  Slash(TokSkipIn(s, TokSkipN(line_begin, line_end, 3), line_end, SIP_LWS))

\* The line_end left by: while (line_end > p && line_end[-1] == ' ') --line_end;
RECURSIVE TrimTrailingSpaces(_, _, _)
TrimTrailingSpaces(s, p, line_end) ==
    IF line_end > p /\ s[line_end - 1] = SP
    THEN TrimTrailingSpaces(s, p, line_end - 1)
    ELSE line_end

ParseStatusLine(s, line_begin, line_end) ==
    LET end == Len(s) + 1
        Reason(version, p, n, reason) ==
            Parsed(MakeMap(<<
                 <<MakeAtom("__struct__"), MakeAtom("Elixir.Sippet.Message.StatusLine")>>,
                 <<MakeAtom("version"), version>>,
                 <<MakeAtom("status_code"), MakeInt(n[2])>>,
                 <<MakeAtom("reason_phrase"),
                   MakeString(Range(s, reason,
                                    TrimTrailingSpaces(s, reason, line_end)))>> >>),
               p = end \/ reason = end)
        Number(version, p, n) ==
            IF ~n[1]
            THEN Parsed(MakeAtom("invalid_status_code"), p = end)
            ELSE Reason(version, p, n, ScanWhile(s, p, {SP}))
        Code(version, code, p) ==
            IF p = code
            THEN Parsed(MakeAtom("empty_status_code"), p = end)
            ELSE Number(version, p, StringToInt(Range(s, code, p)))
        Spaces(version, code) == Code(version, code, ScanWhile(s, code, DigitChars))
        Version(version, sp) ==
            IF IsAtom(version) THEN Parsed(version, FALSE)
            ELSE IF sp = line_end
            THEN Parsed(MakeAtom("missing_status_code"), FALSE)
            ELSE Spaces(version, ScanWhile(s, sp, {SP}))
    IN  Version(ParseVersion(s, line_begin, line_end),
                Find(s, line_begin, line_end, SP))

ParseRequestLine(tbl, s, line_begin0, line_end) ==
    LET end == Len(s) + 1
        Version(method, uri, vstart, version) ==
            IF IsAtom(version)
            THEN Parsed(version, vstart = end)
            ELSE Parsed(MakeMap(<<
                     <<MakeAtom("__struct__"), MakeAtom("Elixir.Sippet.Message.RequestLine")>>,
                     <<MakeAtom("method"), MakeLowerCaseExistingAtomOrString(tbl, method)>>,
                     <<MakeAtom("request_uri"), MakeString(uri)>>,
                     <<MakeAtom("version"), version>> >>),
                   FALSE)
        VersionStart(method, uri, vstart) ==
            Version(method, uri, vstart, ParseVersion(s, vstart, line_end))
        Uri(method, uri_start, p2) ==
            IF p2 = line_end
            THEN Parsed(MakeAtom("missing_uri"), uri_start = end)
            ELSE VersionStart(method, Range(s, uri_start, p2), ScanWhile(s, p2, {SP}))
        UriStart(method, uri_start) ==
            Uri(method, uri_start, Find(s, uri_start, line_end, SP))
        Method(line_begin, p1) ==
            IF p1 = line_end
            THEN Parsed(MakeAtom("missing_method"), FALSE)
            ELSE UriStart(Range(s, line_begin, p1), ScanWhile(s, p1, {SP}))
        Begin(line_begin) == Method(line_begin, Find(s, line_begin, line_end, SP))
    IN  Begin(TokSkipIn(s, line_begin0, line_end, {SP, TAB, CR, LF}))

-----------------------------------------------------------------------------
(* StringTokenizer and the iterators built on it *)

\* Where the token that starts at i ends: the first delimiter outside a
\* quoted region, else end.  q is the open quote character, "" outside a
\* quoted region; inside one a backslash consumes the byte after it.
RECURSIVE TokenEnd(_, _, _, _, _, _)
TokenEnd(s, i, end, delims, quotes, q) ==
    IF i >= end THEN end
    ELSE IF q # ""
    THEN IF s[i] = "\\" THEN TokenEnd(s, i + 2, end, delims, quotes, q)
         ELSE IF s[i] = q THEN TokenEnd(s, i + 1, end, delims, quotes, "")
         ELSE TokenEnd(s, i + 1, end, delims, quotes, q)
    ELSE IF s[i] \in delims THEN i
    ELSE IF s[i] \in quotes THEN TokenEnd(s, i + 1, end, delims, quotes, s[i])
    ELSE TokenEnd(s, i + 1, end, delims, quotes, "")

\* StringTokenizer::GetNext from cursor pos: the token [token_begin,
\* token_end) and the cursor after it (past the delimiter that ended it).
StringTokenizerGetNext(s, pos, end, delims, quotes) ==
    IF pos >= end
    THEN [found |-> FALSE, token_begin |-> end, token_end |-> end, next |-> end]
    ELSE LET Token(te) ==
                 [found |-> TRUE, token_begin |-> pos, token_end |-> te,
                  next |-> IF te < end THEN te + 1 ELSE end]
         IN  Token(TokenEnd(s, pos, end, delims, quotes, ""))

\* A faulty line check, to test the properties against: it leaves out the
\* IsToken test of the name.
HeaderLineAnyName(s, line_begin, line_end) ==
    LET skip == [accept |-> FALSE, name_begin |-> line_begin, name_end |-> line_begin,
                 values_begin |-> line_end, values_end |-> line_end]
        Values(name, vals) ==
            [accept |-> TRUE, name_begin |-> name[1], name_end |-> name[2],
             values_begin |-> vals[1], values_end |-> vals[2]]
        Colon(colon) ==
            IF colon = line_end THEN skip
            ELSE IF line_begin = colon \/ IsLWS(s[line_begin]) THEN skip
            ELSE Values(TrimLWS(s, line_begin, colon), TrimLWS(s, colon + 1, line_end))
    IN  Colon(Find(s, line_begin, line_end, ":"))

\* One line of the header block as HeadersIterator::GetNext judges it:
\* accepted, with the name and values ranges, or skipped as malformed.
HeaderLine(s, line_begin, line_end) ==
    LET skip == [accept |-> FALSE, name_begin |-> line_begin, name_end |-> line_begin,
                 values_begin |-> line_end, values_end |-> line_end]
        Values(name, vals) ==
            [accept |-> TRUE, name_begin |-> name[1], name_end |-> name[2],
             values_begin |-> vals[1], values_end |-> vals[2]]
        Name(colon, name) ==
            IF ~IsToken(Range(s, name[1], name[2])) THEN skip
            ELSE Values(name, TrimLWS(s, colon + 1, line_end))
        Colon(colon) ==
            IF colon = line_end THEN skip
            ELSE IF line_begin = colon \/ IsLWS(s[line_begin]) THEN skip
            ELSE Name(colon, TrimLWS(s, line_begin, colon))
    IN  Colon(Find(s, line_begin, line_end, ":"))

\* HeadersIterator::GetNext with lines_ at cursor pos.
RECURSIVE HeadersIteratorGetNext(_, _, _)
HeadersIteratorGetNext(s, pos, end) ==
    LET Judged(tk, hl) ==
            IF ~hl.accept THEN HeadersIteratorGetNext(s, tk.next, end)
            ELSE [found |-> TRUE, next |-> tk.next,
                  name   |-> Range(s, hl.name_begin, hl.name_end),
                  values |-> Range(s, hl.values_begin, hl.values_end)]
        Line(tk) ==
            IF ~tk.found
            THEN [found |-> FALSE, next |-> tk.next, name |-> << >>, values |-> << >>]
            ELSE Judged(tk, HeaderLine(s, tk.token_begin, tk.token_end))
    IN  Line(StringTokenizerGetNext(s, pos, end, {CR, LF}, {}))

\* ValuesIterator::GetNext with values_ at cursor pos and the quote
\* characters set on values_: the next value that is not empty after
\* trimming.
RECURSIVE ValuesIteratorGetNextQuoted(_, _, _, _, _)
ValuesIteratorGetNextQuoted(s, pos, end, delimiter, quotes) ==
    LET Trimmed_(tk, tr) ==
            IF tr[1] = tr[2]
            THEN ValuesIteratorGetNextQuoted(s, tk.next, end, delimiter, quotes)
            ELSE [found |-> TRUE, next |-> tk.next,
                  value_begin |-> tr[1], value_end |-> tr[2]]
        Token(tk) ==
            IF ~tk.found
            THEN [found |-> FALSE, next |-> tk.next, value_begin |-> end, value_end |-> end]
            ELSE Trimmed_(tk, TrimLWS(s, tk.token_begin, tk.token_end))
    IN  Token(StringTokenizerGetNext(s, pos, end, {delimiter}, quotes))

\* A faulty GetNext, to test the properties against: it returns the first
\* token as trimmed, empty or not.
ValuesIteratorGetNextAny(s, pos, end, delimiter) ==
    LET Trimmed_(tk, tr) ==
            [found |-> TRUE, next |-> tk.next,
             value_begin |-> tr[1], value_end |-> tr[2]]
        Token(tk) ==
            IF ~tk.found
            THEN [found |-> FALSE, next |-> tk.next, value_begin |-> end, value_end |-> end]
            ELSE Trimmed_(tk, TrimLWS(s, tk.token_begin, tk.token_end))
    IN  Token(StringTokenizerGetNext(s, pos, end, {delimiter}, {"'", "\""}))

\* GetNext of a ValuesIterator as its constructor leaves it: both quote
\* characters set.
ValuesIteratorGetNext(s, pos, end, delimiter) ==
    ValuesIteratorGetNextQuoted(s, pos, end, delimiter, {"'", "\""})

\* Every value a ValuesIterator over s yields, in order, as byte strings.
RECURSIVE ValuesFrom(_, _, _)
ValuesFrom(s, pos, delimiter) ==
    LET Value(r) ==
            IF ~r.found THEN << >>
            ELSE <<Range(s, r.value_begin, r.value_end)>>
                 \o ValuesFrom(s, r.next, delimiter)
    IN  Value(ValuesIteratorGetNext(s, pos, Len(s) + 1, delimiter))

\* UnquoteImpl(begin, end, strict_quotes, out): <<returned bool, *out>>.
RECURSIVE Unescape(_, _, _, _, _, _)
Unescape(s, i, prev_escape, strict_quotes, quote, acc) ==
    IF i > Len(s) THEN <<~(strict_quotes /\ prev_escape), acc>>
    ELSE IF s[i] = "\\" /\ ~prev_escape
    THEN Unescape(s, i + 1, TRUE, strict_quotes, quote, acc)
    ELSE IF strict_quotes /\ ~prev_escape /\ s[i] = quote THEN <<FALSE, << >> >>
    ELSE Unescape(s, i + 1, FALSE, strict_quotes, quote, Append(acc, s[i]))

\* A faulty unquote, to test the properties against: the quotes are
\* stripped and the body is handed back with its backslashes.
UnquoteImplKeepsEscapes(s, strict_quotes) ==
    IF Len(s) = 0 THEN <<FALSE, << >> >>
    ELSE IF ~IsQuote(s[1]) THEN <<FALSE, << >> >>
    ELSE IF strict_quotes /\ s[1] # "\"" THEN <<FALSE, << >> >>
    ELSE IF Len(s) < 2 \/ s[1] # s[Len(s)] THEN <<FALSE, << >> >>
    ELSE <<TRUE, SubSeq(s, 2, Len(s) - 1)>>

UnquoteImpl(s, strict_quotes) ==
    IF Len(s) = 0 THEN <<FALSE, << >> >>
    ELSE IF ~IsQuote(s[1]) THEN <<FALSE, << >> >>
    ELSE IF strict_quotes /\ s[1] # "\"" THEN <<FALSE, << >> >>
    ELSE IF Len(s) < 2 \/ s[1] # s[Len(s)] THEN <<FALSE, << >> >>
    ELSE Unescape(SubSeq(s, 2, Len(s) - 1), 1, FALSE, strict_quotes, s[1], << >>)

StrictUnquote(s) == UnquoteImpl(s, TRUE)

Unquote(s) ==
    LET Result(r) == IF r[1] THEN r[2] ELSE s IN Result(UnquoteImpl(s, FALSE))

\* GenericParametersIterator::GetNext on one property (a value of props_):
\* <<name(), value()>>.
GenericParameter(prop) ==
    LET end == Len(prop) + 1
        Value(raw) ==
            IF Len(raw) > 0 /\ IsQuote(raw[1])
            THEN IF raw[1] # raw[Len(raw)] \/ Len(raw) = 1
                 THEN Tail(raw)
                 ELSE Unquote(raw)
            ELSE raw
        Ranges(name, val) ==
            <<Range(prop, name[1], name[2]), Value(Range(prop, val[1], val[2]))>>
        Equals(equals) ==
            IF equals # end /\ equals # 1
            THEN Ranges(TrimLWS(prop, 1, equals), TrimLWS(prop, equals + 1, end))
            ELSE Ranges(TrimLWS(prop, 1, end), <<end, end>>)
    IN  Equals(Find(prop, 1, end, "="))

-----------------------------------------------------------------------------
(* Header-value parsers.  Each takes the value bytes v (the range           *)
(* [values_begin, values_end)) and returns a term; the ones that work on a  *)
(* Tokenizer take its cursor and return the term with the new cursor.       *)

ParseToken(v, cur) ==
    LET end == Len(v) + 1
        Token(token_start, token_end) ==
            [term |-> MakeString(Range(v, token_start, token_end)), cur |-> token_end]
        Start(token_start) ==
            IF token_start = end
            THEN [term |-> MakeAtom("empty_value"), cur |-> token_start]
            ELSE Token(token_start,
                       TokSkipNotIn(v, token_start, end, SIP_LWS \cup {";"}))
    IN  Start(TokSkipIn(v, cur, end, SIP_LWS))

ParseTypeSubtype(v, cur) ==
    LET end == Len(v) + 1
        Subtype(type, subtype_end, subtype) ==
            IF ~IsToken(subtype)
            THEN [term |-> MakeAtom("invalid_token"), cur |-> subtype_end]
            ELSE [term |-> MakeTuple(<<MakeString(type), MakeString(subtype)>>),
                  cur |-> subtype_end]
        SubtypeEnd(type, subtype_start, subtype_end) ==
            Subtype(type, subtype_end, Range(v, subtype_start, subtype_end))
        SubtypeStart(type, subtype_start) ==
            IF subtype_start = end
            THEN [term |-> MakeAtom("missing_subtype"), cur |-> subtype_start]
            ELSE SubtypeEnd(type, subtype_start,
                            TokSkipNotIn(v, subtype_start, end, SIP_LWS \cup {";"}))
        Type(type_end, type) ==
            IF ~IsToken(type)
            THEN [term |-> MakeAtom("invalid_token"), cur |-> type_end]
            ELSE SubtypeStart(type,
                     TokSkipIn(v, TokSkip(TokSkipTo(v, type_end, end, "/"), end),
                               end, SIP_LWS))
        TypeEnd(type_start, type_end) == Type(type_end, Range(v, type_start, type_end))
        TypeStart(type_start) ==
            IF type_start = end
            THEN [term |-> MakeTuple(<< >>), cur |-> type_start]
            ELSE TypeEnd(type_start,
                         TokSkipNotIn(v, type_start, end, SIP_LWS \cup {"/"}))
    IN  TypeStart(TokSkipIn(v, cur, end, SIP_LWS))

\* The map ParseParameters builds from the properties props, in order.
RECURSIVE PutParameters(_, _)
PutParameters(props, pairs) ==
    IF props = << >> THEN pairs
    ELSE LET Put(nv) ==
                 PutParameters(Tail(props),
                     MapPut(pairs, MakeString(nv[1]), MakeString(nv[2])))
         IN  Put(GenericParameter(Head(props)))

ParseParameters(v, cur) ==
    LET end == Len(v) + 1
    IN  IF cur = end THEN MakeMap(<< >>)
        ELSE MakeMap(PutParameters(
                 ValuesFrom(v, TokSkip(TokSkipTo(v, cur, end, ";"), end), ";"),
                 << >>))

ParseSingleToken(v) == ParseToken(v, 1).term

ParseSingleTokenParams(v) ==
    LET Params(value) ==
            IF IsAtom(value.term) THEN value.term
            ELSE MakeTuple(<<value.term, ParseParameters(v, value.cur)>>)
    IN  Params(ParseToken(v, 1))

\* A faulty loop, to test the properties against: it goes on after a
\* failure and returns the error of the last failing value.
ParseEachToTheEnd(elems) ==
    IF \E i \in 1..Len(elems) : IsAtom(elems[i])
    THEN elems[CHOOSE i \in 1..Len(elems) :
                  IsAtom(elems[i]) /\ \A j \in (i + 1)..Len(elems) : ~IsAtom(elems[j])]
    ELSE MakeList(elems)

\* The loop shared by the ParseMultiple* parsers, given what the element
\* parser returns for each value of the ValuesIterator: the first atom
\* among them is the result, else the list of the elements in order.
ParseEach(elems) ==
    IF \E i \in 1..Len(elems) : IsAtom(elems[i])
    THEN elems[CHOOSE i \in 1..Len(elems) :
                  IsAtom(elems[i]) /\ \A j \in 1..(i - 1) : ~IsAtom(elems[j])]
    ELSE MakeList(elems)

ParseMultipleTokens(v) ==
    LET Each(values) == ParseEach([i \in 1..Len(values) |-> ParseSingleToken(values[i])])
    IN  Each(ValuesFrom(v, 1, ","))

ParseMultipleTokenParams(v) ==
    LET Each(values) == ParseEach([i \in 1..Len(values) |-> ParseSingleTokenParams(values[i])])
    IN  Each(ValuesFrom(v, 1, ","))

ParseSingleTypeSubtypeParams(v) ==
    LET Params(value) ==
            IF IsAtom(value.term) THEN value.term
            ELSE MakeTuple(<<value.term, ParseParameters(v, value.cur)>>)
    IN  Params(ParseTypeSubtype(v, 1))

ParseMultipleTypeSubtypeParams(v) ==
    LET Each(values) == ParseEach([i \in 1..Len(values) |-> ParseSingleTypeSubtypeParams(values[i])])
    IN  Each(ValuesFrom(v, 1, ","))

ParseSingleInteger(v) ==
    LET end == Len(v) + 1
        Number(i) == IF ~i[1] THEN MakeAtom("invalid_digits") ELSE MakeInt(i[2])
        Start(token_start) ==
            Number(StringToInt(
                Range(v, token_start, TokSkipNotIn(v, token_start, end, SIP_LWS))))
    IN  Start(TokSkipIn(v, 1, end, SIP_LWS))

ParseTrimmedUtf8(v) == MakeString(Trimmed(v))

ParseCseq(tbl, v) ==
    LET end == Len(v) + 1
        Method(sequence, method_term) ==
            IF ~method_term[1] THEN MakeAtom("unknown_method")
            ELSE MakeTuple(<<MakeInt(sequence[2]), method_term[2]>>)
        MethodStart(sequence, method_start) ==
            IF method_start = end THEN MakeAtom("missing_method")
            ELSE Method(sequence,
                     MakeLowerCaseExistingAtom(tbl,
                         Range(v, method_start,
                               TokSkipNotIn(v, method_start, end, SIP_LWS))))
        Sequence(integer_end, sequence) ==
            IF ~sequence[1] THEN MakeAtom("invalid_sequence")
            ELSE MethodStart(sequence, TokSkipIn(v, integer_end, end, SIP_LWS))
        IntegerEnd(integer_start, integer_end) ==
            Sequence(integer_end, StringToInt(Range(v, integer_start, integer_end)))
        IntegerStart(integer_start) ==
            IF integer_start = end THEN MakeAtom("missing_sequence")
            ELSE IntegerEnd(integer_start,
                            TokSkipNotIn(v, integer_start, end, SIP_LWS))
    IN  IntegerStart(TokSkipIn(v, 1, end, SIP_LWS))

\* NameValuePairsIterator::IsQuote
IsQuoteIn(c, strict_quotes) == IF strict_quotes THEN c = "\"" ELSE IsQuote(c)

\* One pass of NameValuePairsIterator::GetNext over the property prop that
\* props_ yielded: the value returned (which is also what valid_ is set to
\* when it is FALSE), the name, raw_value() and value().
NameValuePairIn(prop, values_optional, strict_quotes) ==
    LET end == Len(prop) + 1
        invalid == [valid |-> FALSE, name |-> << >>, raw_value |-> << >>,
                    value |-> << >>]
        Strict(name, raw, unquoted) ==
            IF ~unquoted[1] THEN invalid
            ELSE [valid |-> TRUE, name |-> name, raw_value |-> raw,
                  value |-> unquoted[2]]
        Value(name, raw) ==
            IF Len(raw) > 0 /\ IsQuoteIn(raw[1], strict_quotes)
            THEN IF strict_quotes THEN Strict(name, raw, StrictUnquote(raw))
                 ELSE IF raw[1] # raw[Len(raw)] \/ Len(raw) = 1
                 THEN [valid |-> TRUE, name |-> name, raw_value |-> Tail(raw),
                       value |-> Tail(raw)]
                 ELSE [valid |-> TRUE, name |-> name, raw_value |-> raw,
                       value |-> Unquote(raw)]
            ELSE [valid |-> TRUE, name |-> name, raw_value |-> raw, value |-> raw]
        Ranges(equals, name, val) ==
            IF equals # end /\ val[1] = val[2] THEN invalid
            ELSE Value(Range(prop, name[1], name[2]), Range(prop, val[1], val[2]))
        Equals(equals) ==
            IF equals = 1 THEN invalid
            ELSE IF equals = end /\ ~values_optional THEN invalid
            ELSE IF equals # end
                    /\ \E i \in 1..(equals - 1) : IsQuoteIn(prop[i], strict_quotes)
            THEN invalid
            ELSE Ranges(equals, TrimLWS(prop, 1, equals),
                        IF equals = end THEN <<end, end>>
                        ELSE TrimLWS(prop, equals + 1, end))
    IN  Equals(Find(prop, 1, end, "="))

\* The same with values required and quotes not strict, as the
\* three-argument constructor sets them.
NameValuePair(prop) == NameValuePairIn(prop, FALSE, FALSE)

\* The while (it.GetNext()) loop of ParseAuthParams from pos on: the pairs
\* put in the map.  The loop ends at the first pair that is not valid.
RECURSIVE PutAuthParams(_, _, _)
PutAuthParams(v, pos, pairs) ==
    LET Pair(r, nv) ==
            IF ~nv.valid THEN pairs
            ELSE PutAuthParams(v, r.next,
                     MapPut(pairs, MakeString(nv.name), MakeString(nv.raw_value)))
        Prop(r) ==
            IF ~r.found THEN pairs
            ELSE Pair(r, NameValuePair(Range(v, r.value_begin, r.value_end)))
    IN  Prop(ValuesIteratorGetNext(v, pos, Len(v) + 1, ","))

ParseAuthScheme(v, cur) ==
    LET end == Len(v) + 1
        Scheme(scheme_start, scheme_end) ==
            [term |-> MakeString(Range(v, scheme_start, scheme_end)),
             cur |-> scheme_end]
        Start(scheme_start) ==
            IF scheme_start = end
            THEN [term |-> MakeAtom("missing_auth_scheme"), cur |-> scheme_start]
            ELSE Scheme(scheme_start, TokSkipNotIn(v, scheme_start, end, SIP_LWS))
    IN  Start(TokSkipIn(v, cur, end, SIP_LWS))

ParseAuthParams(v, cur) == MakeMap(PutAuthParams(v, cur, << >>))

ParseOnlyAuthParams(v) == ParseAuthParams(v, 1)

ParseSchemeAndAuthParams(v) ==
    LET Params(scheme) ==
            IF IsAtom(scheme.term) THEN scheme.term
            ELSE MakeTuple(<<scheme.term, ParseAuthParams(v, scheme.cur)>>)
    IN  Params(ParseAuthScheme(v, 1))

-----------------------------------------------------------------------------
(* Host and port *)

\* What ParseHostAndPort returns and leaves in *host and *port.
HostPort(ok, host, port) == [ok |-> ok, host |-> host, port |-> port]

\* host and port are what the caller's variables hold before the call.
\* *host is assigned last, on success only; *port is also written by a
\* StringToInt that fails.
ParseHostAndPort(host_and_port, host, port) ==
    LET end == Len(host_and_port) + 1
        failed == HostPort(FALSE, host, port)
        Number(host_end, n) ==
            IF ~n[1] THEN HostPort(FALSE, host, n[2])
            ELSE HostPort(TRUE, Range(host_and_port, 1, host_end), n[2])
        Port(host_end, cur, port_start, port_end) ==
            IF cur < end THEN failed
            ELSE IF port_start < port_end
            THEN Number(host_end,
                        StringToInt(Range(host_and_port, port_start, port_end)))
            ELSE HostPort(TRUE, Range(host_and_port, 1, host_end), -1)
        Host(host_end, cur) ==
            IF cur < end /\ host_and_port[cur] = ":"
            THEN IF \E i \in (cur + 1)..(end - 1) : ~IsDigit(host_and_port[i])
                 THEN failed
                 ELSE Port(host_end, end, cur + 1, end)
            ELSE Port(host_end, cur, end, end)
        Bracket(close) ==
            IF close = end THEN failed ELSE Host(close + 1, close + 1)
        Colon(colon) == Host(colon, colon)
    IN  IF 1 >= end THEN failed
        ELSE IF host_and_port[1] = "["
        THEN Bracket(Find(host_and_port, 1, end, "]"))
        ELSE Colon(Find(host_and_port, 1, end, ":"))

-----------------------------------------------------------------------------
(* Dispatcher and registry *)

\* Rows X(class_name, compact_name, header_name, enum_name, format) of
\* header_list.h, with enum_name lower-cased as LoadHeaderNameAtoms does;
\* compact_name "" stands for 0 (no compact form).
HeaderList ==
    << [enum_name |-> "accept",         compact_name |-> "",  format |-> "MultipleTypeSubtypeParams"],
       [enum_name |-> "allow",          compact_name |-> "",  format |-> "MultipleTokens"],
       [enum_name |-> "call_id",        compact_name |-> "i", format |-> "SingleToken"],
       [enum_name |-> "content_length", compact_name |-> "l", format |-> "SingleInteger"],
       [enum_name |-> "cseq",           compact_name |-> "",  format |-> "Cseq"],
       [enum_name |-> "subject",        compact_name |-> "s", format |-> "TrimmedUtf8"],
       [enum_name |-> "supported",      compact_name |-> "k", format |-> "MultipleTokens"] >>

\* g_parsers and g_aliases as LoadHeaderNameAtoms fills them: insert keeps
\* the first row of a key.
FirstRow(field, key) ==
    HeaderList[CHOOSE i \in 1..Len(HeaderList) :
                  /\ HeaderList[i][field] = key
                  /\ \A j \in 1..(i - 1) : HeaderList[j][field] # key]

g_parsers ==
    [a \in {HeaderList[i].enum_name : i \in 1..Len(HeaderList)} |->
        FirstRow("enum_name", a).format]

g_aliases ==
    [c \in {HeaderList[i].compact_name : i \in 1..Len(HeaderList)} \ {""} |->
        FirstRow("compact_name", c).enum_name]

\* The atoms on_load leaves in the atom table, among the VM's own.
LoadedAtoms == MethodAtoms \cup DOMAIN g_parsers \cup {"ok", "error"}

\* (f->second)(env, values_begin, values_end) for the Parse##format of a row.
CallParser(tbl, format, v) ==
    CASE format = "SingleToken"               -> ParseSingleToken(v)
      [] format = "SingleTokenParams"         -> ParseSingleTokenParams(v)
      [] format = "MultipleTokens"            -> ParseMultipleTokens(v)
      [] format = "MultipleTokenParams"       -> ParseMultipleTokenParams(v)
      [] format = "SingleTypeSubtypeParams"   -> ParseSingleTypeSubtypeParams(v)
      [] format = "MultipleTypeSubtypeParams" -> ParseMultipleTypeSubtypeParams(v)
      [] format = "SingleInteger"             -> ParseSingleInteger(v)
      [] format = "TrimmedUtf8"               -> ParseTrimmedUtf8(v)
      [] format = "Cseq"                      -> ParseCseq(tbl, v)

\* A faulty lookup, to test the properties against: the alias table is
\* searched for the letter as written, without tolower.
HeaderNameTermExactCase(tbl, header_name) ==
    IF Len(header_name) = 1 /\ header_name[1] \in DOMAIN g_aliases
    THEN <<TRUE, MakeAtom(g_aliases[header_name[1]])>>
    ELSE MakeLowerCaseExistingAtom(tbl, header_name)

\* header_name_term after the alias and atom lookups: <<set, atom>>, where
\* set = FALSE stands for the 0 it is initialised to.
HeaderNameTerm(tbl, header_name) ==
    IF Len(header_name) = 1
       /\ ToLowerASCIIChar(header_name[1]) \in DOMAIN g_aliases
    THEN <<TRUE, MakeAtom(g_aliases[ToLowerASCIIChar(header_name[1])])>>
    ELSE MakeLowerCaseExistingAtom(tbl, header_name)

\* A faulty dispatcher, to test the properties against: a name that is an
\* existing atom without a parser is keyed by that atom.
ParseHeaderKeepsAtom(tbl, header_name, header_values) ==
    LET Dispatch(term) ==
            IF term[1] /\ Val(term[2]) \in DOMAIN g_parsers
            THEN MakeTuple(<<term[2],
                             CallParser(tbl, g_parsers[Val(term[2])], header_values)>>)
            ELSE MakeTuple(<<IF term[1] THEN term[2] ELSE MakeString(header_name),
                             MakeList(<<MakeString(header_values)>>)>>)
    IN  Dispatch(HeaderNameTerm(tbl, header_name))

ParseHeader(tbl, header_name, header_values) ==
    LET Dispatch(term) ==
            IF term[1] /\ Val(term[2]) \in DOMAIN g_parsers
            THEN MakeTuple(<<term[2],
                             CallParser(tbl, g_parsers[Val(term[2])], header_values)>>)
            ELSE MakeTuple(<<MakeString(header_name),
                             MakeList(<<MakeString(header_values)>>)>>)
    IN  Dispatch(HeaderNameTerm(tbl, header_name))

-----------------------------------------------------------------------------
(* Parse *)

Reverse(seq) == [i \in 1..Len(seq) |-> seq[Len(seq) + 1 - i]]

\* The while loop over enif_get_list_cell: each head of the list term is
\* consed onto acc; a term that is not a list gives no cell.
RECURSIVE ConsEach(_, _)
ConsEach(elems, acc) ==
    IF elems = << >> THEN acc ELSE ConsEach(Tail(elems), <<Head(elems)>> \o acc)

\* A faulty merge, to test the properties against: the elements of the new
\* value go before the stored ones.
MergeHeaderNewFirst(headers, header_name, header_values) ==
    IF MapHas(headers, header_name)
    THEN LET Adding(existing) ==
                 IF ~IsList(existing)
                 THEN <<FALSE, MakeTuple(<<MakeAtom("error"),
                                           MakeAtom("multiple_definition")>>)>>
                 ELSE <<TRUE, MapPut(headers, header_name,
                                     MakeList((IF IsList(header_values)
                                               THEN Val(header_values) ELSE << >>)
                                              \o Val(existing)))>>
         IN  Adding(MapGet(headers, header_name))
    ELSE <<TRUE, MapPut(headers, header_name, header_values)>>

\* The headers map after one parsed header (the merge of Parse), or the error
\* tuple Parse returns instead.  <<ok, headers or error term>>.
MergeHeader(headers, header_name, header_values) ==
    IF MapHas(headers, header_name)
    THEN LET Adding(existing) ==
                 IF ~IsList(existing)
                 THEN <<FALSE, MakeTuple(<<MakeAtom("error"),
                                           MakeAtom("multiple_definition")>>)>>
                 ELSE <<TRUE, MapPut(headers, header_name,
                          MakeList(Reverse(
                              ConsEach(IF IsList(header_values)
                                       THEN Val(header_values) ELSE << >>,
                                       Reverse(Val(existing))))))>>
         IN  Adding(MapGet(headers, header_name))
    ELSE <<TRUE, MapPut(headers, header_name, header_values)>>

\* The while (it.GetNext()) loop of Parse from cursor pos of the iterator.
RECURSIVE HeadersLoop(_, _, _, _)
HeadersLoop(tbl, in, pos, headers) ==
    LET Merged(it, merged) ==
            IF ~merged[1] THEN merged
            ELSE HeadersLoop(tbl, in, it.next, merged[2])
        Header(it, header) ==
            IF IsAtom(header)
            THEN <<FALSE, MakeTuple(<<MakeAtom("error"), header>>)>>
            ELSE Merged(it, MergeHeader(headers, Val(header)[1], Val(header)[2]))
        Yielded(it) ==
            IF ~it.found THEN <<TRUE, headers>>
            ELSE Header(it, ParseHeader(tbl, it.name, it.values))
    IN  Yielded(HeadersIteratorGetNext(in, pos, Len(in) + 1))

\* "Jump over next CRLF": where the HeadersIterator starts, given the end i
\* of the start line.
HeadersStart(in, i) ==
    LET end == Len(in) + 1
        AfterCR(i1) == IF i # end /\ i1 # end /\ in[i1] = LF THEN i1 + 1 ELSE i1
    IN  AfterCR(IF i # end /\ in[i] = CR THEN i + 1 ELSE i)

\* The process aborted inside the call: nothing is returned.
Crashed == <<"crash", << >> >>

\* Parse(env, raw_message) in a build whose end() dereference does pe:
\* the returned term, with the assembled block it worked on.
Parse(tbl, raw, pe) ==
    LET Headers(in, key, start, hdrs) ==
            IF ~hdrs[1] THEN [term |-> hdrs[2], input |-> in]
            ELSE [term  |-> MakeTuple(<<MakeAtom("ok"),
                               MakeMap(<< <<MakeAtom(key), start.term>>,
                                          <<MakeAtom("headers"), MakeMap(hdrs[2])>> >>)>>),
                  input |-> in]
        StartLine(in, i, key, start) ==
            IF start.oob /\ pe = TRAP THEN [term |-> Crashed, input |-> in]
            ELSE IF IsAtom(start.term) THEN [term |-> start.term, input |-> in]
            ELSE Headers(in, key, start,
                         HeadersLoop(tbl, in, HeadersStart(in, i), << >>))
        FirstLine(in, i, status) ==
            IF status
            THEN StartLine(in, i, "status_line", ParseStatusLine(in, 1, i))
            ELSE StartLine(in, i, "request_line", ParseRequestLine(tbl, in, 1, i))
        LineEnd(in, i) == FirstLine(in, i, IsStatusLine(in, 1, i))
        Assembled(asm) ==
            IF asm.oob /\ pe = TRAP THEN [term |-> Crashed, input |-> << >>]
            ELSE IF ~asm.ok
            THEN [term  |-> MakeTuple(<<MakeAtom("error"),
                                        MakeAtom("invalid_line_break")>>),
                  input |-> asm.out]
            ELSE LineEnd(asm.out, FindLineEnd(asm.out, 1, Len(asm.out) + 1))
    IN  Assembled(AssembleRawHeaders(raw))


\* Every pair a HeadersIterator over s yields from cursor pos on, in order.
RECURSIVE YieldedFrom(_, _)
YieldedFrom(s, pos) ==
    LET Rest(it) ==
            IF ~it.found THEN << >>
            ELSE << <<it.name, it.values>> >> \o YieldedFrom(s, it.next)
    IN  Rest(HeadersIteratorGetNext(s, pos, Len(s) + 1))

-----------------------------------------------------------------------------
(* Inputs *)

MaxHeaders == 2
MaxBytes   == 5
MaxLines   == 3
MaxHostPort == 3
MaxNumber  == 3
MaxQuoted  == 4
MaxToken   == 3
MaxValueBytes == 4
MaxListValues == 3

\* Stands in a line for the line terminator the message uses.
EOL == "EOL"

RequestLine ==
    <<"I","N","V","I","T","E"," ","s","i","p",":","a"," ","S","I","P","/","2",".","0">>
StatusLine == <<"S","I","P","/","2",".","0"," ","2","0","0"," ","O","K">>
BadRequestLine == <<"B","A","D"," ","M","E","T","H","O","D">>

StartLines == { RequestLine, StatusLine, BadRequestLine }

CallIdLong     == <<"C","a","l","l","-","I","D",":"," ","a">>
CallIdCompact  == <<"I",":","b">>
AllowTwo       == <<"A","l","l","o","w",":"," ","a",","," ","b">>
AllowOne       == <<"a","l","l","o","w",":","c">>
SubjectFolded  == <<"s",":","a",EOL," ","\t","b">>
CSeqGood       == <<"C","S","e","q",":"," ","1"," ","I","N","V","I","T","E">>
CSeqBad        == <<"C","S","e","q",":"," ","x">>
AcceptGood     == <<"A","c","c","e","p","t",":"," ","a","/","b">>
AcceptBad      == <<"A","c","c","e","p","t",":"," ","a">>
FooLine        == <<"F","o","o",":"," ","a">>
XFolded        == <<"x",":","a",EOL,"\t","b">>
InviteNamed    == <<"I","n","v","i","t","e",":","a">>
NoColonLine    == <<"m","a","l","f","o","r","m","e","d">>

HeaderLines ==
    { CallIdLong, CallIdCompact, AllowTwo, AllowOne, SubjectFolded, CSeqGood,
      CSeqBad, AcceptGood, AcceptBad, FooLine, XFolded, InviteNamed, NoColonLine }

Terminators == { <<CR, LF>>, <<LF>> }

HeaderBlocks == UNION { [1..n -> HeaderLines] : n \in 0..MaxHeaders }

RECURSIVE Flatten(_)
Flatten(seqs) == IF seqs = << >> THEN << >> ELSE Head(seqs) \o Flatten(Tail(seqs))

\* The bytes of a line with every EOL written as the terminator term.
WithTerminator(line, term) ==
    Flatten([i \in 1..Len(line) |-> IF line[i] = EOL THEN term ELSE <<line[i]>>])

\* The lines, each followed by the terminator, the last one only when fin.
Render(start, lines, term, fin) ==
    LET all == <<start>> \o lines
    IN  Flatten([i \in 1..Len(all) |->
                    WithTerminator(all[i], term)
                    \o (IF i < Len(all) \/ fin THEN term ELSE << >>)])

\* Every start line alone or with one header line, with and without a
\* terminator after the last line; longer header blocks under the request
\* line, each line terminated.
Messages ==
    { Render(st, ls, tm, fin) :
        st \in StartLines, ls \in {b \in HeaderBlocks : Len(b) <= 1},
        tm \in Terminators, fin \in BOOLEAN }
    \cup
    { Render(RequestLine, ls, tm, TRUE) :
        ls \in {b \in HeaderBlocks : Len(b) > 1}, tm \in Terminators }

ByteAlphabet == {CR, LF, SP, TAB, "a"}

ByteStrings == UNION { [1..n -> ByteAlphabet] : n \in 0..MaxBytes }

\* Lines of a header block as a HeadersIterator may be given them.
GoodLineAB      == <<"a",":","b">>
GoodLineBA      == <<"b",":"," ","a">>
GoodLineNoValue == <<"a",":">>
GoodLineColons  == <<"a",":","b",":","a">>
GoodLineNameLWS == <<"a"," ",":","b">>
BadLineNoColon  == <<"a">>
BadLineEmpty    == << >>
BadLineNoName   == <<":","a">>
BadLineLeadSP   == <<" ","a",":","b">>
BadLineLeadTAB  == <<"\t","a",":","b">>
BadLineParen    == <<"a","(",":","b">>
BadLineInnerSP  == <<"a"," ","b",":","a">>

BlockLines ==
    { GoodLineAB, GoodLineBA, GoodLineNoValue, GoodLineColons, GoodLineNameLWS,
      BadLineNoColon, BadLineEmpty, BadLineNoName, BadLineLeadSP, BadLineLeadTAB,
      BadLineParen, BadLineInnerSP }

\* The lines joined by LF, with an LF after the last one when fin.
JoinLines(lines, fin) ==
    Flatten([i \in 1..Len(lines) |->
                lines[i] \o (IF i < Len(lines) \/ fin THEN <<LF>> ELSE << >>)])

HeaderBlockStrings ==
    { JoinLines(ls, fin) :
        ls \in UNION { [1..n -> BlockLines] : n \in 0..MaxLines }, fin \in BOOLEAN }

\* Start lines for Parse: request lines over method spellings, and status
\* lines put together from a separator, a status code and a rest.
MethodWords ==
    { <<"I","N","V","I","T","E">>, <<"I","n","v","i","t","e">>, <<"a","c","k">>, <<"B","a","d">>, <<"X">>, <<"A","l","l","o","w">>, <<"O","K">> }

RequestLineOf(method) == method \o <<SP,"s","i","p",":","A",SP,"S","I","P","/","2",".","0">>

StatusSpaces == { << >>, <<SP>>, <<SP,SP>> }
StatusCodes  == { << >>, <<"2","0","0">>, <<"4","0","4">>, <<"2","1","4","7","4","8","3","6","4","8">> }
StatusRests  == { << >>, <<SP>>, <<SP,"O","K">>, <<SP,"N","o","t",SP,"F","o","u","n","d",SP>>, <<"O","K">> }

StatusLineOf(spaces, code, rest) == <<"S","I","P","/","2",".","0">> \o spaces \o code \o rest

LineEnds == { << >>, <<LF>>, <<CR, LF>> }

LineMessages ==
    { RequestLineOf(m) \o e : m \in MethodWords, e \in LineEnds }
    \cup
    { StatusLineOf(sp, c, r) \o e :
        sp \in StatusSpaces, c \in StatusCodes, r \in StatusRests, e \in LineEnds }

\* Arguments for ParseVersion: a protocol name, a separator, the major
\* part, the dot, the minor part and what follows.
VersionNames  == { <<"S","I","P">>, <<"s","i","p">>, <<"S","i","P">>, <<"S","I">>, <<"X","I","P">> }
VersionSlashes == { <<"/">>, <<SP,"/">>, << >> }
VersionMajors == { <<"2">>, <<"2","2">>, <<"2","x">>, <<"x">>, << >> }
VersionDots   == { <<".">>, << >> }
VersionMinors == { <<"0">>, <<"x">>, << >> }
VersionTails  == { << >>, <<SP,"2","0","0",SP,"a",".","1">> }

VersionInputs ==
    { n \o sl \o ma \o d \o mi \o t :
        n \in VersionNames, sl \in VersionSlashes, ma \in VersionMajors,
        d \in VersionDots, mi \in VersionMinors, t \in VersionTails }

\* Values for ParseCseq: leading LWS, a first run, LWS, a method.
CseqLeads   == { << >>, <<SP>> }
CseqNumbers == { << >>, <<"1">>, <<"4","2">>, <<"x">>, <<"1","x">> }
CseqGaps    == { << >>, <<SP>>, <<TAB>>, <<SP,SP>> }
CseqMethods == { << >>, <<"I","N","V","I","T","E">>, <<"I","n","v","i","t","e">>, <<"a","c","k">>, <<"F","o","o">>, <<"A","l","l","o","w">> }

CseqValue(lead, number, gap, method) == lead \o number \o gap \o method

CseqInputs ==
    { CseqValue(l, n, g, m) :
        l \in CseqLeads, n \in CseqNumbers, g \in CseqGaps, m \in CseqMethods }

\* Values for ParseTypeSubtype.
MediaLeads    == { << >>, <<SP>> }
MediaTypes    == { << >>, <<"a">>, <<"A">>, <<"A","p","p","l","i","c","a","t","i","o","n">> }
MediaSlashes  == { << >>, <<"/">>, <<SP,"/",SP>> }
MediaSubtypes == { << >>, <<"b">>, <<"B">>, <<"S","D","P">> }
MediaTails    == { << >>, <<SP>>, <<";","q","=","1">> }

MediaValue(lead, type, slash, subtype, tail) ==
    lead \o type \o slash \o subtype \o tail

MediaInputs ==
    { MediaValue(l, t, sl, st, tl) :
        l \in MediaLeads, t \in MediaTypes, sl \in MediaSlashes,
        st \in MediaSubtypes, tl \in MediaTails }

\* Parameter names and values as written, each value with the bytes it
\* stands for once unquoted.
ParamNames == { <<"n">>, <<"N">>, <<"T","a","g">> }

ParamValues ==
    { [text |-> <<"v">>, value |-> <<"v">>],
      [text |-> <<"V">>, value |-> <<"V">>],
      [text |-> <<"\"","V","\"">>, value |-> <<"V">>],
      [text |-> <<"'","V","w","'">>, value |-> <<"V","w">>],
      [text |-> <<"\"","a","\\","\"","B","\"">>, value |-> <<"a","\"","B">>] }

\* Values for ParseSingleTokenParams: a token, then no, one or two
\* parameters.
ParamsValue(names, values) ==
    <<"a">> \o Flatten([i \in 1..Len(names) |->
                           <<";">> \o names[i] \o <<"=">> \o values[i].text])

ParamsShapes ==
    { <<names, values>> :
        names \in UNION { [1..n -> ParamNames] : n \in 0..2 },
        values \in UNION { [1..n -> ParamValues] : n \in 0..2 } }

ParamsInputs ==
    { ParamsValue(sh[1], sh[2]) :
        sh \in { x \in ParamsShapes : Len(x[1]) = Len(x[2]) } }

\* Values for ParseOnlyAuthParams: one or two name=value pairs.
AuthNames == { <<"n">>, <<"r","e","a","l","m">> }

AuthParamsValue(names, values) ==
    Flatten([i \in 1..Len(names) |->
                (IF i > 1 THEN <<",", SP>> ELSE << >>)
                \o names[i] \o <<"=">> \o values[i].text])

AuthShapes ==
    { <<names, values>> :
        names \in UNION { [1..n -> AuthNames] : n \in 0..2 },
        values \in UNION { [1..n -> ParamValues] : n \in 0..2 } }

AuthParamsInputs ==
    { AuthParamsValue(sh[1], sh[2]) :
        sh \in { x \in AuthShapes : Len(x[1]) = Len(x[2]) } }

\* Values for ParseSchemeAndAuthParams: LWS, a scheme, parameters.
AuthLeads   == { << >>, <<SP>> }
AuthSchemes == { << >>, <<"D","i","g","e","s","t">> }

SchemeValue(lead, scheme, params) ==
    lead \o scheme \o (IF params = << >> THEN << >> ELSE <<SP>> \o params)

SchemeInputs ==
    { SchemeValue(l, sc, ps) :
        l \in AuthLeads, sc \in AuthSchemes, ps \in AuthParamsInputs }

\* Arguments for ParseHostAndPort: a host and what follows it.
HostAddresses == { <<":",":","1">>, <<"1",":",":","a">> }
HostNames     == { << >>, <<"a">>, <<"a",".","b">>, <<"[",":",":","1">>, <<"[">> }
HostPorts     == { << >>, <<":","9","0">>, <<":">>, <<":","9","x">>, <<":","2","1","4","7","4","8","3","6","4","8">> }

Bracketed(address) == <<"[">> \o address \o <<"]">>

HostPortAlphabet == { "[", "]", ":", "9", "a" }

HostPortInputs ==
    { h \o pt :
        h \in HostNames \cup { Bracketed(a) : a \in HostAddresses },
        pt \in HostPorts }
    \cup UNION { [1..n -> HostPortAlphabet] : n \in 0..MaxHostPort }

\* What the caller's host and port hold before the call; port is declared
\* without an initial value.
PriorHosts == { << >>, <<"h">> }
PriorPorts == { 0, 5060 }

\* Inputs for StringToInt: every short string over a sign, digits, a
\* space and a letter, and the numbers around the ends of int with a lead,
\* a sign and a tail.
NumberAlphabet == { "-", "+", "0", "7", SP, "x" }

NumberLeads == { << >>, <<SP>> }
NumberSigns == { << >>, <<"-">>, <<"+">> }
NumberRuns  == { <<"2","1","4","7","4","8","3","6","4">>, <<"2","1","4","7","4","8","3","6","4","7">>, <<"2","1","4","7","4","8","3","6","4","8">>, <<"2","1","4","7","4","8","3","6","4","9">>, <<"9","9","9","9","9","9","9","9","9","9","9">>, <<"0","0","0","2","1","4","7","4","8","3","6","4","7">> }
NumberTails == { << >>, <<"x">>, <<"0">> }

NumberInputs ==
    UNION { [1..n -> NumberAlphabet] : n \in 0..MaxNumber }
    \cup { l \o sg \o d \o t :
             l \in NumberLeads, sg \in NumberSigns, d \in NumberRuns,
             t \in NumberTails }

\* Inputs for Unquote and StrictUnquote.
QuoteAlphabet == { "\"", "'", "\\", "a" }

QuotedInputs == UNION { [1..n -> QuoteAlphabet] : n \in 0..MaxQuoted }

\* Atoms the rest of the VM may create before the call.
AtomPool == {"x"}

\* What dereferencing a string's end() iterator does, which C++ leaves
\* undefined: the read finds the terminator std::string keeps there, or a
\* build with checked iterators aborts.
PastEndOutcomes == {NUL, TRAP}

\* Tokenizer inputs: a plain byte, a delimiter and a space.
TokenAlphabet == { "a", ";", SP }
TokenStrings == UNION { [1..n -> TokenAlphabet] : n \in 0..MaxToken }
TokenCharSets == { <<SP>>, <<";", SP>>, <<"a">> }
SkipCounts == { -1, 0, 1, 2, MaxToken + 2 }

\* Iterator inputs: values and name=value pairs between commas, with
\* spaces and quotes, and longer rows where a well-formed pair follows a
\* malformed one.
ValueAlphabet == { "a", ",", SP, "\"" }
ValueStrings == UNION { [1..n -> ValueAlphabet] : n \in 0..MaxValueBytes }
PairAlphabet == { "a", "=", ",", "\"" }
PairRows ==
    { <<"=","a",",","a","=","a">>,
      <<"a",",","a","=","a">>,
      <<"a","="," ",",","a","=","a">>,
      <<"\"","=","a",",","a","=","a">>,
      <<"a","=","\"","a",",","a","=","a">>,
      <<"a","=","\"","\\","\"",",","a","=","a">>,
      <<"a","=","a",",","=",",","a","=","a">> }
PairStrings ==
    PairRows \cup UNION { [1..n -> PairAlphabet] : n \in 0..MaxValueBytes }

\* Values of list headers: up to MaxListValues pieces between commas, a
\* piece being empty, blank, a token, a type/subtype, one with parameters,
\* or one the type/subtype parser rejects in either of its two ways.
ListPieces ==
    { << >>, <<SP>>, <<"a">>, <<SP, "b", SP>>, <<"a", ";", "b", "=", "c">>,
      <<"a", "/", "b">>, <<"A", "/", "b", ";", "c">>, <<"(", "/", "b">> }
RECURSIVE JoinPieces(_)
JoinPieces(pieces) ==
    IF Len(pieces) = 1 THEN pieces[1]
    ELSE pieces[1] \o <<",">> \o JoinPieces(Tail(pieces))
ListInputs ==
    { << >> } \cup
    UNION { { JoinPieces(ps) : ps \in [1..n -> ListPieces] } : n \in 1..MaxListValues }

-----------------------------------------------------------------------------
(* The state machine *)

NoResult == <<"none", << >> >>
NoIterator == [s |-> << >>, pos |-> 1, name |-> << >>, values |-> << >>]

InitCommon ==
    /\ atoms = LoadedAtoms
    /\ input = << >>
    /\ result = NoResult
    /\ yielded = << >>

Init ==
    /\ raw_message \in Messages
    /\ pc = "ready"
    /\ hit = NoIterator
    /\ InitCommon

InitBytes ==
    /\ raw_message \in ByteStrings
    /\ pc = "ready"
    /\ hit = NoIterator
    /\ InitCommon

\* A HeadersIterator constructed over a header block, before its first GetNext.
InitHeaders ==
    /\ raw_message = << >>
    /\ pc = "iterate"
    /\ \E s \in HeaderBlockStrings :
          hit = [s |-> s, pos |-> 1, name |-> << >>, values |-> << >>]
    /\ InitCommon

\* The NIF call: parse_wrapper hands raw_message to Parse.
ParseCall ==
    /\ pc = "ready"
    /\ \E pe \in PastEndOutcomes :
          \E r \in {Parse(atoms, raw_message, pe)} :
              /\ result' = r.term
              /\ input' = r.input
    /\ pc' = "done"
    /\ UNCHANGED <<atoms, raw_message, hit, yielded>>

\* Some other code of the VM creates an atom (enif_make_atom, a loaded module).
CreateAtom ==
    /\ pc = "ready"
    /\ \E a \in AtomPool \ atoms : atoms' = atoms \cup {a}
    /\ UNCHANGED <<raw_message, pc, input, result, hit, yielded>>

\* One call of HeadersIterator::GetNext by the iterator's user, who stops
\* at the first false.
GetNext ==
    /\ pc = "iterate"
    /\ \E r \in {HeadersIteratorGetNext(hit.s, hit.pos, Len(hit.s) + 1)} :
          /\ hit' = [s |-> hit.s, pos |-> r.next, name |-> r.name, values |-> r.values]
          /\ yielded' = IF r.found THEN Append(yielded, <<r.name, r.values>>) ELSE yielded
          /\ pc' = IF r.found THEN "iterate" ELSE "done"
    /\ UNCHANGED <<atoms, raw_message, input, result>>

\* Parse is about to be called on a start line.
InitLines ==
    /\ raw_message \in LineMessages
    /\ pc = "ready"
    /\ hit = NoIterator
    /\ InitCommon

\* A caller is about to hand raw_message to one of the parsers.
InitParsers ==
    /\ \/ pc = "call ParseVersion" /\ raw_message \in VersionInputs
       \/ pc = "call ParseCseq" /\ raw_message \in CseqInputs
       \/ pc = "call ParseTypeSubtype" /\ raw_message \in MediaInputs
       \/ pc = "call ParseSingleTokenParams" /\ raw_message \in ParamsInputs
       \/ pc = "call ParseOnlyAuthParams" /\ raw_message \in AuthParamsInputs
       \/ pc = "call ParseSchemeAndAuthParams" /\ raw_message \in SchemeInputs
       \/ pc = "call ParseHostAndPort" /\ raw_message \in HostPortInputs
    /\ IF pc = "call ParseHostAndPort"
       THEN \E h \in PriorHosts, p \in PriorPorts :
                result = <<"hostport", HostPort(FALSE, h, p)>>
       ELSE result = NoResult
    /\ hit = NoIterator
    /\ atoms = LoadedAtoms
    /\ input = << >>
    /\ yielded = << >>

CallParseVersion ==
    /\ pc = "call ParseVersion"
    /\ result' = ParseVersion(raw_message, 1, Len(raw_message) + 1)
    /\ pc' = "ParseVersion returned"
    /\ UNCHANGED <<atoms, raw_message, input, hit, yielded>>

CallParseCseq ==
    /\ pc = "call ParseCseq"
    /\ result' = ParseCseq(atoms, raw_message)
    /\ pc' = "ParseCseq returned"
    /\ UNCHANGED <<atoms, raw_message, input, hit, yielded>>

CallParseTypeSubtype ==
    /\ pc = "call ParseTypeSubtype"
    /\ result' = ParseTypeSubtype(raw_message, 1).term
    /\ pc' = "ParseTypeSubtype returned"
    /\ UNCHANGED <<atoms, raw_message, input, hit, yielded>>

CallParseSingleTokenParams ==
    /\ pc = "call ParseSingleTokenParams"
    /\ result' = ParseSingleTokenParams(raw_message)
    /\ pc' = "ParseSingleTokenParams returned"
    /\ UNCHANGED <<atoms, raw_message, input, hit, yielded>>

CallParseOnlyAuthParams ==
    /\ pc = "call ParseOnlyAuthParams"
    /\ result' = ParseOnlyAuthParams(raw_message)
    /\ pc' = "ParseOnlyAuthParams returned"
    /\ UNCHANGED <<atoms, raw_message, input, hit, yielded>>

CallParseSchemeAndAuthParams ==
    /\ pc = "call ParseSchemeAndAuthParams"
    /\ result' = ParseSchemeAndAuthParams(raw_message)
    /\ pc' = "ParseSchemeAndAuthParams returned"
    /\ UNCHANGED <<atoms, raw_message, input, hit, yielded>>

\* result holds <<"hostport", HostPort(...)>>: the caller's host and port
\* before the call, the outcome after it.
CallParseHostAndPort ==
    /\ pc = "call ParseHostAndPort"
    /\ result' = <<"hostport",
                   ParseHostAndPort(raw_message, Val(result).host, Val(result).port)>>
    /\ pc' = "ParseHostAndPort returned"
    /\ UNCHANGED <<atoms, raw_message, input, hit, yielded>>

\* A caller is about to hand raw_message to one of the utilities.
InitUtils ==
    /\ \/ pc = "call StringToInt" /\ raw_message \in NumberInputs
       \/ pc = "call Unquote" /\ raw_message \in QuotedInputs
       \/ pc = "call StrictUnquote" /\ raw_message \in QuotedInputs
    /\ hit = NoIterator
    /\ InitCommon

\* result holds <<"int", <<returned bool, *output>> >>.
CallStringToInt ==
    /\ pc = "call StringToInt"
    /\ result' = <<"int", StringToInt(raw_message)>>
    /\ pc' = "StringToInt returned"
    /\ UNCHANGED <<atoms, raw_message, input, hit, yielded>>

\* result holds <<"string", the string returned>>.
CallUnquote ==
    /\ pc = "call Unquote"
    /\ result' = <<"string", Unquote(raw_message)>>
    /\ pc' = "Unquote returned"
    /\ UNCHANGED <<atoms, raw_message, input, hit, yielded>>

\* result holds <<"unquoted", <<returned bool, *out>> >>.
CallStrictUnquote ==
    /\ pc = "call StrictUnquote"
    /\ result' = <<"unquoted", StrictUnquote(raw_message)>>
    /\ pc' = "StrictUnquote returned"
    /\ UNCHANGED <<atoms, raw_message, input, hit, yielded>>

\* A Tokenizer constructed over [begin, end) of s: current_ is string_begin.
\* hit.read holds the positions the last call dereferenced, input the
\* argument of the last call.
Tokenizer(s, string_begin, string_end) ==
    [s |-> s, begin |-> string_begin, current |-> string_begin,
     end |-> string_end, read |-> {}]

InitTokenizer ==
    /\ raw_message \in TokenStrings
    /\ pc = "constructed"
    /\ \E b \in 1..(Len(raw_message) + 1) :
         \E e \in b..(Len(raw_message) + 1) :
             hit = Tokenizer(raw_message, b, e)
    /\ InitCommon

\* The tokenizer after a call that moved current_ to next, having read the
\* positions in read; result holds the iterator returned.
Moved(next, read) ==
    /\ hit' = [hit EXCEPT !.current = next, !.read = read]
    /\ result' = <<"iterator", next>>
    /\ UNCHANGED <<atoms, raw_message, yielded>>

SetOf(chars) == { chars[i] : i \in 1..Len(chars) }

SkipChars ==
    \E chars \in TokenCharSets :
        LET To(next) == Moved(next, TokReads(hit.current, next, hit.end))
        IN  /\ input' = chars
            /\ pc' = "Skip(chars)"
            /\ To(TokSkipIn(hit.s, hit.current, hit.end, SetOf(chars)))

SkipNotIn ==
    \E chars \in TokenCharSets :
        LET To(next) == Moved(next, TokReads(hit.current, next, hit.end))
        IN  /\ input' = chars
            /\ pc' = "SkipNotIn(chars)"
            /\ To(TokSkipNotIn(hit.s, hit.current, hit.end, SetOf(chars)))

SkipTo ==
    \E c \in TokenAlphabet :
        LET To(next) == Moved(next, TokReads(hit.current, next, hit.end))
        IN  /\ input' = <<c>>
            /\ pc' = "SkipTo(c)"
            /\ To(TokSkipTo(hit.s, hit.current, hit.end, c))

Skip ==
    /\ input' = << >>
    /\ pc' = "Skip()"
    /\ Moved(TokSkip(hit.current, hit.end), {})

SkipN ==
    \E n \in SkipCounts :
        /\ input' = <<n>>
        /\ pc' = "Skip(n)"
        /\ Moved(TokSkipN(hit.current, hit.end, n), {})

NextTokenizer == SkipChars \/ SkipNotIn \/ SkipTo \/ Skip \/ SkipN

\* A Tokenizer driven by any sequence of its skipping calls.
SpecTokenizer == InitTokenizer /\ [][NextTokenizer]_vars

\* A ValuesIterator constructed over [values_begin, values_end) of s:
\* pos is the cursor of values_.  yielded holds the ranges
\* <<value_begin, value_end>> of the calls that returned true.
ValuesIterator(s, values_begin, values_end, delimiter) ==
    [s |-> s, begin |-> values_begin, end |-> values_end, pos |-> values_begin,
     delimiter |-> delimiter]

\* A NameValuePairsIterator constructed over s: pos is the cursor of
\* props_.
NameValuePairsIterator(s, delimiter, values_optional, strict_quotes) ==
    [s |-> s, pos |-> 1, delimiter |-> delimiter, valid |-> TRUE,
     name |-> << >>, raw_value |-> << >>, value |-> << >>,
     values_optional |-> values_optional, strict_quotes |-> strict_quotes]

InitIterators ==
    /\ \/ /\ pc = "ValuesIterator"
          /\ raw_message \in ValueStrings
          /\ \E b \in 1..(Len(raw_message) + 1) :
               \E e \in b..(Len(raw_message) + 1) :
                   hit = ValuesIterator(raw_message, b, e, ",")
       \/ /\ pc = "NameValuePairsIterator"
          /\ raw_message \in PairStrings
          /\ \E values_optional \in BOOLEAN, strict_quotes \in BOOLEAN :
                hit = NameValuePairsIterator(raw_message, ",",
                                             values_optional, strict_quotes)
    /\ InitCommon

\* ValuesIterator::GetNext; result holds the returned bool.
ValuesGetNext ==
    /\ pc = "ValuesIterator"
    /\ LET Step(r) ==
               /\ hit' = [hit EXCEPT !.pos = r.next]
               /\ result' = <<"bool", r.found>>
               /\ yielded' = IF r.found
                             THEN Append(yielded, <<r.value_begin, r.value_end>>)
                             ELSE yielded
       IN  Step(ValuesIteratorGetNext(hit.s, hit.pos, hit.end, hit.delimiter))
    /\ UNCHANGED <<atoms, raw_message, pc, input>>

\* NameValuePairsIterator::GetNext; result holds the returned bool.
NameValuePairsGetNext ==
    /\ pc = "NameValuePairsIterator"
    /\ LET Pair(r, nv) ==
               /\ hit' = [hit EXCEPT !.pos = r.next,
                                     !.valid = IF nv.valid THEN @ ELSE FALSE,
                                     !.name = nv.name,
                                     !.raw_value = nv.raw_value,
                                     !.value = nv.value]
               /\ result' = <<"bool", nv.valid>>
           Prop(r) ==
               IF ~r.found
               THEN /\ hit' = [hit EXCEPT !.pos = r.next]
                    /\ result' = <<"bool", FALSE>>
               ELSE Pair(r, NameValuePairIn(Range(hit.s, r.value_begin, r.value_end),
                                            hit.values_optional, hit.strict_quotes))
       IN  Prop(ValuesIteratorGetNextQuoted(
                    hit.s, hit.pos, Len(hit.s) + 1, hit.delimiter,
                    IF hit.strict_quotes THEN {"\""} ELSE {"'", "\""}))
    /\ UNCHANGED <<atoms, raw_message, pc, input, yielded>>

NextIterators == ValuesGetNext \/ NameValuePairsGetNext

\* A ValuesIterator or a NameValuePairsIterator stepped by GetNext.
SpecIterators == InitIterators /\ [][NextIterators]_vars

\* A caller is about to hand the value raw_message to one of the list
\* parsers.
InitLists ==
    /\ pc \in { "call ParseMultipleTokens", "call ParseMultipleTokenParams",
                "call ParseMultipleTypeSubtypeParams" }
    /\ raw_message \in ListInputs
    /\ hit = NoIterator
    /\ InitCommon

CallParseMultipleTokens ==
    /\ pc = "call ParseMultipleTokens"
    /\ result' = ParseMultipleTokens(raw_message)
    /\ pc' = "ParseMultipleTokens returned"
    /\ UNCHANGED <<atoms, raw_message, input, hit, yielded>>

CallParseMultipleTokenParams ==
    /\ pc = "call ParseMultipleTokenParams"
    /\ result' = ParseMultipleTokenParams(raw_message)
    /\ pc' = "ParseMultipleTokenParams returned"
    /\ UNCHANGED <<atoms, raw_message, input, hit, yielded>>

CallParseMultipleTypeSubtypeParams ==
    /\ pc = "call ParseMultipleTypeSubtypeParams"
    /\ result' = ParseMultipleTypeSubtypeParams(raw_message)
    /\ pc' = "ParseMultipleTypeSubtypeParams returned"
    /\ UNCHANGED <<atoms, raw_message, input, hit, yielded>>

NextLists ==
    \/ CallParseMultipleTokens
    \/ CallParseMultipleTokenParams
    \/ CallParseMultipleTypeSubtypeParams

\* The list parsers called one at a time.
SpecLists == InitLists /\ [][NextLists]_vars

Next == ParseCall \/ CreateAtom

NextHeaders == GetNext

\* Parse on whole messages.
Spec == Init /\ [][Next]_vars

\* Parse on arbitrary short byte strings.
SpecBytes == InitBytes /\ [][Next]_vars

\* HeadersIterator stepped over header blocks.
SpecHeaders == InitHeaders /\ [][NextHeaders]_vars

NextParsers ==
    \/ CallParseVersion
    \/ CallParseCseq
    \/ CallParseTypeSubtype
    \/ CallParseSingleTokenParams
    \/ CallParseOnlyAuthParams
    \/ CallParseSchemeAndAuthParams
    \/ CallParseHostAndPort

\* Parse on start lines, with and without a line terminator.
SpecLines == InitLines /\ [][Next]_vars

\* The parsers called one at a time on values of their own.
SpecParsers == InitParsers /\ [][NextParsers]_vars

NextUtils ==
    \/ CallStringToInt
    \/ CallUnquote
    \/ CallStrictUnquote

\* The utilities of utils.cc called one at a time.
SpecUtils == InitUtils /\ [][NextUtils]_vars

-----------------------------------------------------------------------------
(* Properties *)

\* t is the 2-tuple {tag, _}.
IsPairOf(t, tag) ==
    Tag(t) = "tuple" /\ Len(Val(t)) = 2 /\ Val(t)[1] = MakeAtom(tag)

ErrorPair(code) == MakeTuple(<<MakeAtom("error"), MakeAtom(code)>>)

ResultOk == pc = "done" /\ IsPairOf(result, "ok")

\* The pairs of the headers map of an {ok, Message} result.
ResultHeaders == Val(Val(Val(result)[2])[2][2])

\* The (name, values) pairs of the assembled block Parse worked on, and
\* what ParseHeader makes of each: <<key, value>>.
InputHeaders ==
    YieldedFrom(input, HeadersStart(input, FindLineEnd(input, 1, Len(input) + 1)))

ParsedHeaders ==
    LET ih == InputHeaders
    IN  [k \in 1..Len(ih) |-> Val(ParseHeader(atoms, ih[k][1], ih[k][2]))]

\* Some \r of s is not followed by \n.
HasLoneCR(s) ==
    \E i \in 1..Len(s) : s[i] = CR /\ (i = Len(s) \/ s[i + 1] # LF)

\* s with every \r\n written as \n, and with every bare \n written as \r\n.
CRLFToLF(s) ==
    LET Keep(i) == ~(s[i] = CR /\ i < Len(s) /\ s[i + 1] = LF)
    IN  Flatten([i \in 1..Len(s) |-> IF Keep(i) THEN <<s[i]>> ELSE << >>])

LFToCRLF(s) ==
    Flatten([i \in 1..Len(s) |->
                IF s[i] = LF /\ (i = 1 \/ s[i - 1] # CR) THEN <<CR, LF>> ELSE <<s[i]>>])

\* The fold \r\n SP TAB starts at index i of s.
FoldAt(s, i) ==
    /\ i + 3 <= Len(s)
    /\ s[i] = CR /\ s[i + 1] = LF /\ s[i + 2] = SP /\ s[i + 3] = TAB

\* s with every fold \r\n SP TAB written as one SP.
Unfolded(s) ==
    Flatten([i \in 1..Len(s) |->
                IF FoldAt(s, i) THEN <<SP>>
                ELSE IF (i > 1 /\ FoldAt(s, i - 1)) \/ (i > 2 /\ FoldAt(s, i - 2))
                        \/ (i > 3 /\ FoldAt(s, i - 3))
                THEN << >>
                ELSE <<s[i]>>])

\* The terms Parse may return for raw, over the builds' end() behaviours.
ParseOutcomes(raw) == { Parse(atoms, raw, pe).term : pe \in PastEndOutcomes }

\* C1: every call of parse that returns hands back {ok, Message} or
\* {error, ErrorCode}, never a bare error code.
C1_ParseReturnsTaggedPair ==
    pc = "done" /\ result # Crashed =>
        \/ IsPairOf(result, "ok") /\ Tag(Val(result)[2]) = "map"
        \/ IsPairOf(result, "error") /\ IsAtom(Val(result)[2])

\* The input BAD METHOD\nmalformed has returned the bare atom missing_uri.
C1_BareCodeReturned ==
    /\ pc = "done"
    /\ raw_message = Render(BadRequestLine, <<NoColonLine>>, <<LF>>, FALSE)
    /\ result = MakeAtom("missing_uri")

\* C2: when a registered header's value fails its parser, parse does not
\* return {ok, Message}, and no error code is stored as a header's value.
C2_FailedValueAbortsParse ==
    ResultOk =>
        /\ \A k \in 1..Len(ParsedHeaders) : ~IsAtom(ParsedHeaders[k][2])
        /\ \A k \in 1..Len(ResultHeaders) : ~IsAtom(ResultHeaders[k][2])

\* CSeq: x has been parsed into {ok, Message} with cseq => invalid_sequence.
C2_ErrorCodeStored ==
    /\ ResultOk
    /\ raw_message = Render(RequestLine, <<CSeqBad>>, <<CR, LF>>, TRUE)
    /\ MapGet(ResultHeaders, MakeAtom("cseq")) = MakeAtom("invalid_sequence")

\* C3: an input with a \r not followed by \n (the last byte included) makes
\* parse return {error, invalid_line_break}; on every other input the
\* assembler succeeds.
C3_LoneCRIsInvalidLineBreak ==
    pc = "done" =>
        IF HasLoneCR(raw_message)
        THEN result = ErrorPair("invalid_line_break")
        ELSE AssembleRawHeaders(raw_message).ok

\* parse was called on an input ending in \r and did not return.
C3_TrailingCRCrashed ==
    /\ pc = "done"
    /\ raw_message = <<"a", CR>>
    /\ result = Crashed

\* C4: on an input without a lone \r, writing every \r\n as \n, or every
\* bare \n as \r\n, leaves the assembled block and the parse result the same.
C4_TerminatorsEquivalent ==
    pc = "done" /\ ~HasLoneCR(raw_message) =>
        \A other \in {CRLFToLF(raw_message), LFToCRLF(raw_message)} :
            /\ AssembleRawHeaders(other).ok
            /\ AssembleRawHeaders(other).out = input
            /\ result \in ParseOutcomes(other)

\* An input that mixes \r\n and \n terminators has been assembled.
C4_MixedTerminatorsParsed ==
    /\ pc = "done"
    /\ ~HasLoneCR(raw_message)
    /\ CRLFToLF(raw_message) # raw_message
    /\ LFToCRLF(raw_message) # raw_message
    /\ Len(input) > 1

\* C5: a header line continued by \r\n SP TAB text parses as the line with
\* text appended to its value after a single space.
C5_FoldIsSingleSpace ==
    pc = "done" /\ (\E i \in 1..Len(raw_message) : FoldAt(raw_message, i)) =>
        result \in ParseOutcomes(Unfolded(raw_message))

\* s:a continued by \r\n SP TAB b has been parsed with the value a SP TAB b.
C5_FoldKeptVerbatim ==
    /\ ResultOk
    /\ raw_message = Render(RequestLine, <<SubjectFolded>>, <<CR, LF>>, TRUE)
    /\ MapGet(ResultHeaders, MakeAtom("subject")) = MakeString(<<"a", SP, TAB, "b">>)

\* The formats whose value is a comma-separated list.
CommaListFormats ==
    {"MultipleTokens", "MultipleTokenParams", "MultipleTypeSubtypeParams"}

\* C6: when every header line's value is a list, the list stored under a
\* name is the concatenation, in document order, of the lists of its
\* occurrences; and for a comma-list header, two occurrences give the list
\* of the one line that holds both values separated by a comma.
C6_RepeatedListsConcatenate ==
    LET ih == InputHeaders
        ph == ParsedHeaders
    IN  ResultOk /\ (\A k \in 1..Len(ph) : IsList(ph[k][2])) =>
          /\ \A k \in 1..Len(ph) :
                LET Same(p) == p[1] = ph[k][1]
                    occ     == SelectSeq(ph, Same)
                IN  /\ MapHas(ResultHeaders, ph[k][1])
                    /\ MapGet(ResultHeaders, ph[k][1])
                         = MakeList(Flatten([j \in 1..Len(occ) |-> Val(occ[j][2])]))
          /\ \A i, j \in 1..Len(ph) :
                (/\ i < j
                 /\ ph[i][1] = ph[j][1]
                 /\ IsAtom(ph[i][1])
                 /\ g_parsers[Val(ph[i][1])] \in CommaListFormats)
                => Val(ParseHeader(atoms, ih[i][1],
                                   ih[i][2] \o <<",", SP>> \o ih[j][2]))[2]
                     = MakeList(Val(ph[i][2]) \o Val(ph[j][2]))

\* Allow: a, b followed by allow:c has given allow => [a, b, c].
C6_AllowMerged ==
    /\ ResultOk
    /\ raw_message = Render(RequestLine, <<AllowTwo, AllowOne>>, <<CR, LF>>, TRUE)
    /\ MapGet(ResultHeaders, MakeAtom("allow"))
         = MakeList(<<MakeString(<<"a">>), MakeString(<<"b">>), MakeString(<<"c">>)>>)

\* C7: when a name occurs again and the value of either occurrence is not a
\* list, parse returns {error, multiple_definition}.
C7_RepeatNonListIsError ==
    LET ph == ParsedHeaders
    IN  (/\ pc = "done"
         /\ Tag(result) = "tuple"
         /\ \E i, j \in 1..Len(ph) :
               i < j /\ ph[i][1] = ph[j][1] /\ (~IsList(ph[i][2]) \/ ~IsList(ph[j][2])))
        => result = ErrorPair("multiple_definition")

\* Accept: a/b followed by Accept: a has been parsed into {ok, Message}
\* whose accept list holds the first line's element only.
C7_NewValueDropped ==
    /\ ResultOk
    /\ raw_message = Render(RequestLine, <<AcceptGood, AcceptBad>>, <<CR, LF>>, TRUE)
    /\ Len(Val(MapGet(ResultHeaders, MakeAtom("accept")))) = 1

\* The lines of s: the stretches between its LFs.
RECURSIVE SplitLines(_)
SplitLines(s) ==
    IF \A i \in 1..Len(s) : s[i] # LF THEN <<s>>
    ELSE LET n == CHOOSE i \in 1..Len(s) : s[i] = LF /\ \A j \in 1..(i - 1) : s[j] # LF
         IN  <<SubSeq(s, 1, n - 1)>> \o SplitLines(SubSeq(s, n + 1, Len(s)))

\* s without the SP and TAB at its two ends.
Strip(s) ==
    LET inner == {i \in 1..Len(s) : s[i] \notin {SP, TAB}}
    IN  IF inner = {} THEN << >>
        ELSE SubSeq(s, CHOOSE i \in inner : \A j \in inner : i <= j,
                       CHOOSE i \in inner : \A j \in inner : i >= j)

FirstColon(line) ==
    CHOOSE i \in 1..Len(line) : line[i] = ":" /\ \A j \in 1..(i - 1) : line[j] # ":"

\* The line has a colon, a name before it that is not empty and does not
\* start with SP or TAB, and only token bytes in the trimmed name.
WellFormedLine(line) ==
    /\ \E i \in 1..Len(line) : line[i] = ":"
    /\ LET name == SubSeq(line, 1, FirstColon(line) - 1)
       IN  /\ name # << >>
           /\ name[1] \notin {SP, TAB}
           /\ \A i \in 1..Len(Strip(name)) : Strip(name)[i] \notin NonTokenChars

LinePair(line) ==
    <<Strip(SubSeq(line, 1, FirstColon(line) - 1)),
      Strip(SubSeq(line, FirstColon(line) + 1, Len(line)))>>

WellFormedLines(s) == SelectSeq(SplitLines(s), WellFormedLine)

ExpectedPairs(s) ==
    LET good == WellFormedLines(s) IN [i \in 1..Len(good) |-> LinePair(good[i])]

\* C8: GetNext yields the well-formed lines of the block, each once and in
\* document order, and skips the others; the block without its malformed
\* lines yields the same pairs.
C8_MalformedLinesSkipped ==
    LET want == ExpectedPairs(hit.s)
    IN  /\ Len(yielded) <= Len(want)
        /\ yielded = SubSeq(want, 1, Len(yielded))
        /\ pc = "done" =>
              /\ yielded = want
              /\ YieldedFrom(JoinLines(WellFormedLines(hit.s), TRUE), 1) = yielded

\* Two lines have been yielded around a skipped one.
C8_SkippedBetweenYields ==
    /\ pc = "done"
    /\ hit.s = JoinLines(<<GoodLineAB, BadLineParen, GoodLineBA>>, FALSE)
    /\ yielded = << <<(<<"a">>), (<<"b">>)>>, <<(<<"b">>), (<<"a">>)>> >>

ToUpperASCIIChar(c) ==
    IF \E i \in 1..26 : LowerCase[i] = c
    THEN UpperCase[CHOOSE i \in 1..26 : LowerCase[i] = c]
    ELSE c

\* Long forms of the header with the canonical id enum_name: lower case,
\* upper case, and with the first letter in upper case.
LongForms(enum_name) ==
    LET lower == [i \in 1..Len(Spelling[enum_name]) |->
                     IF Spelling[enum_name][i] = "_" THEN "-" ELSE Spelling[enum_name][i]]
    IN  { lower,
          [i \in 1..Len(lower) |-> ToUpperASCIIChar(lower[i])],
          [i \in 1..Len(lower) |-> IF i = 1 THEN ToUpperASCIIChar(lower[i]) ELSE lower[i]] }

\* C9: a header named by a compact letter, in either case, is dispatched as
\* the header named by the long form in any case: same key, same parser,
\* same result.
C9_CompactSameAsLong ==
    LET ih == InputHeaders
    IN  pc = "done" =>
          \A k \in 1..Len(ih) : \A c \in DOMAIN g_aliases :
            ((Len(ih[k][1]) = 1 /\ ToLowerASCIIChar(ih[k][1][1]) = c)
             \/ Canonical(ih[k][1]) = Spelling[g_aliases[c]])
            => /\ \A compact \in {<<c>>, <<ToUpperASCIIChar(c)>>} :
                  \A long \in LongForms(g_aliases[c]) :
                     /\ ParseHeader(atoms, compact, ih[k][2])
                          = ParseHeader(atoms, long, ih[k][2])
                     /\ Val(ParseHeader(atoms, compact, ih[k][2]))[1]
                          = MakeAtom(g_aliases[c])
               /\ ResultOk => MapHas(ResultHeaders, MakeAtom(g_aliases[c]))

\* I:b has been parsed and stored under call_id.
C9_UpperCompactDispatched ==
    /\ ResultOk
    /\ raw_message = Render(RequestLine, <<CallIdCompact>>, <<LF>>, TRUE)
    /\ MapGet(ResultHeaders, MakeAtom("call_id")) = MakeString(<<"b">>)

\* The name is a registry row's compact letter or long form, in any case.
InRegistry(name) ==
    \E i \in 1..Len(HeaderList) :
        \/ Len(name) = 1 /\ ToLowerASCIIChar(name[1]) = HeaderList[i].compact_name
        \/ Canonical(name) = Spelling[HeaderList[i].enum_name]

\* C10: a header whose name is not in the registry is returned under its
\* raw name bytes with a one-element list of its raw value bytes, and is
\* stored so.
C10_UnknownHeaderKeptRaw ==
    LET ih == InputHeaders
    IN  pc = "done" =>
          \A k \in 1..Len(ih) :
            ~InRegistry(ih[k][1]) =>
              /\ ParseHeader(atoms, ih[k][1], ih[k][2])
                   = MakeTuple(<<MakeString(ih[k][1]),
                                 MakeList(<<MakeString(ih[k][2])>>)>>)
              /\ ResultOk =>
                   /\ MapHas(ResultHeaders, MakeString(ih[k][1]))
                   /\ \E n \in 1..Len(Val(MapGet(ResultHeaders, MakeString(ih[k][1])))) :
                         Val(MapGet(ResultHeaders, MakeString(ih[k][1])))[n]
                           = MakeString(ih[k][2])

\* Invite:a has been stored under the bytes Invite, and x:... under the
\* byte x while x is an atom.
C10_MethodNamedHeaderRaw ==
    /\ ResultOk
    /\ "x" \in atoms
    /\ raw_message = Render(RequestLine, <<InviteNamed, XFolded>>, <<LF>>, TRUE)
    /\ MapGet(ResultHeaders, MakeString(<<"I","n","v","i","t","e">>))
         = MakeList(<<MakeString(<<"a">>)>>)
    /\ MapGet(ResultHeaders, MakeString(<<"x">>))
         = MakeList(<<MakeString(<<"a", TAB, "b">>)>>)

-----------------------------------------------------------------------------
(* Start lines *)

\* The start line of an {ok, Message} result, and the term under one of
\* its keys.
StartLine(key) == Val(MapGet(Val(Val(result)[2]), MakeAtom(key)))

StartLineField(key, field) == MapGet(StartLine(key), MakeAtom(field))

\* The error code a result names, bare or in an {error, Code} pair.
ResultCode ==
    IF IsAtom(result) THEN Val(result)
    ELSE IF IsPairOf(result, "error") THEN Val(Val(result)[2])
    ELSE ""

\* The member of the method set that method spells once lower-cased, else
\* the lower-cased bytes.
MethodId(method) ==
    IF \E a \in MethodAtoms : Spelling[a] = ToLowerASCII(method)
    THEN MakeAtom(CHOOSE a \in MethodAtoms : Spelling[a] = ToLowerASCII(method))
    ELSE MakeBinary(ToLowerASCII(method))

\* The number a run of decimal digits writes.
RECURSIVE DecimalValue(_)
DecimalValue(digits) ==
    IF digits = << >> THEN 0
    ELSE DecimalValue(SubSeq(digits, 1, Len(digits) - 1)) * 10
         + DigitVal(digits[Len(digits)])

\* The digits write a number that an int holds.
FitsInt(digits) ==
    \/ Len(digits) < 10
    \/ /\ Len(digits) = 10
       /\ \/ DecimalValue(SubSeq(digits, 1, 9)) < IntMax \div 10
          \/ /\ DecimalValue(SubSeq(digits, 1, 9)) = IntMax \div 10
             /\ DigitVal(digits[10]) <= IntMax % 10

\* s without its leading and trailing spaces.
RECURSIVE StripSP(_)
StripSP(s) ==
    IF s = << >> THEN s
    ELSE IF Head(s) = SP THEN StripSP(Tail(s))
    ELSE IF s[Len(s)] = SP THEN StripSP(SubSeq(s, 1, Len(s) - 1))
    ELSE s

\* C11: parse is a function of the input bytes alone: what a call returns
\* is what the call returns on the same bytes right after load, whatever
\* atoms have been created in the VM since.
C11_ParseIsPure ==
    pc = "done" =>
        result \in { Parse(LoadedAtoms, raw_message, pe).term :
                        pe \in PastEndOutcomes }

\* After the atom x was created, the request line X sip:A SIP/2.0 has been
\* parsed with the atom x as its method.
C11_CreatedAtomReturned ==
    /\ ResultOk
    /\ "x" \in atoms
    /\ raw_message = RequestLineOf(<<"X">>) \o <<LF>>
    /\ StartLineField("request_line", "method") = MakeAtom("x")

\* C12: the method of a parsed request line is the member of the method
\* set its lower-cased bytes spell, else those lower-cased bytes: never the
\* bytes as written, never an atom outside the method set.
C12_MethodIsIdOrLowerCase ==
    ResultOk =>
        \A m \in MethodWords, e \in LineEnds :
            raw_message = RequestLineOf(m) \o e =>
                StartLineField("request_line", "method") = MethodId(m)

\* The request line Bad sip:A SIP/2.0 has been parsed with method "Bad".
C12_MethodKeptAsWritten ==
    /\ ResultOk
    /\ raw_message = RequestLineOf(<<"B","a","d">>) \o <<CR, LF>>
    /\ StartLineField("request_line", "method") = MakeBinary(<<"B","a","d">>)

\* C15: a status line SIP/2.0, spaces, digits, rest is parsed into version
\* (2, 0), the digits' value and the rest stripped of spaces; without any
\* space the code is missing_status_code, without a digit after the spaces
\* empty_status_code, with digits beyond an int invalid_status_code.
C15_StatusLineParsed ==
    pc = "done" =>
        \A sp \in StatusSpaces, c \in StatusCodes, r \in StatusRests, e \in LineEnds :
            raw_message = StatusLineOf(sp, c, r) \o e =>
                IF \A i \in 1..Len(sp \o r) : (sp \o r)[i] # SP
                THEN ResultCode = "missing_status_code"
                ELSE IF sp = << >> THEN TRUE
                ELSE IF c = << >> THEN ResultCode = "empty_status_code"
                ELSE IF ~FitsInt(c)
                THEN ResultCode = "invalid_status_code"
                ELSE /\ ResultOk
                     /\ StartLineField("status_line", "version")
                            = MakeTuple(<<MakeInt(2), MakeInt(0)>>)
                     /\ StartLineField("status_line", "status_code")
                            = MakeInt(DecimalValue(c))
                     /\ StartLineField("status_line", "reason_phrase")
                            = MakeBinary(StripSP(r))

\* parse was called on SIP/2.0 200 with nothing after the digits and did
\* not return.
C15_UnterminatedCodeCrashed ==
    /\ pc = "done"
    /\ raw_message = StatusLineOf(<<SP>>, <<"2","0","0">>, << >>)
    /\ result = Crashed

\* The same with every result but a crash: what C15 says of the lines the
\* parser reads within bounds.
StatusLineParsedUnlessCrashed == result # Crashed => C15_StatusLineParsed

-----------------------------------------------------------------------------
(* Value parsers *)

Returned(parser) == pc = parser \o " returned"

\* s holds only LWS.
OnlyLWS(s) == \A i \in 1..Len(s) : IsLWS(s[i])

IsDigits(s) == s # << >> /\ \A i \in 1..Len(s) : IsDigit(s[i])

\* C13: ParseCseq returns (integer, method) for integer LWS method, the
\* method as C12 gives it, an unknown method being no error; it returns
\* missing_sequence for an empty or LWS-only value, invalid_sequence when
\* the first run is no integer, missing_method when no method follows.
C13_CseqKeepsUnknownMethod ==
    Returned("ParseCseq") =>
        \A l \in CseqLeads, n \in CseqNumbers, g \in CseqGaps, m \in CseqMethods :
            raw_message = CseqValue(l, n, g, m) =>
                IF n = << >> /\ m = << >>
                THEN result = MakeAtom("missing_sequence")
                ELSE IF n = << >> \/ (g = << >> /\ m # << >>) THEN TRUE
                ELSE IF ~IsDigits(n) THEN result = MakeAtom("invalid_sequence")
                ELSE IF m = << >> THEN result = MakeAtom("missing_method")
                ELSE result = MakeTuple(<<MakeInt(DecimalValue(n)), MethodId(m)>>)

\* ParseCseq has returned unknown_method for 1 Foo.
C13_UnknownMethodRejected ==
    /\ Returned("ParseCseq")
    /\ raw_message = CseqValue(<< >>, <<"1">>, <<SP>>, <<"F","o","o">>)
    /\ result = MakeAtom("unknown_method")

\* C14: ParseVersion returns a version only for SIP in any letter case,
\* "/", one digit M, ".", one digit m at the start of its input, and then
\* returns (M, m).
C14_VersionNeedsSingleDigits ==
    Returned("ParseVersion") /\ ~IsAtom(result) =>
        /\ Len(raw_message) >= 7
        /\ LowerCaseEqualsASCII(SubSeq(raw_message, 1, 3), <<"s","i","p">>)
        /\ raw_message[4] = "/"
        /\ IsDigit(raw_message[5])
        /\ raw_message[6] = "."
        /\ IsDigit(raw_message[7])
        /\ result = MakeTuple(<<MakeInt(DigitVal(raw_message[5])),
                                MakeInt(DigitVal(raw_message[7]))>>)

\* ParseVersion has returned (2, 0) for SIP/22.0.
C14_TwoDigitMajorAccepted ==
    /\ Returned("ParseVersion")
    /\ raw_message = <<"S","I","P","/","2","2",".","0">>
    /\ result = MakeTuple(<<MakeInt(2), MakeInt(0)>>)

\* C16: ParseTypeSubtype returns type and subtype lower-cased, and the
\* empty tuple for an empty or LWS-only value.
C16_TypeSubtypeLowerCased ==
    Returned("ParseTypeSubtype") =>
        /\ OnlyLWS(raw_message) => result = MakeTuple(<< >>)
        /\ \A l \in MediaLeads, t \in MediaTypes, sl \in MediaSlashes,
              st \in MediaSubtypes, tl \in MediaTails :
              /\ raw_message = MediaValue(l, t, sl, st, tl)
              /\ t # << >> /\ sl # << >> /\ st # << >>
              => result = MakeTuple(<<MakeBinary(ToLowerASCII(t)),
                                      MakeBinary(ToLowerASCII(st))>>)

\* ParseTypeSubtype has returned ("Application", "SDP") for Application/SDP.
C16_CaseKeptAsWritten ==
    /\ Returned("ParseTypeSubtype")
    /\ raw_message = <<"A","p","p","l","i","c","a","t","i","o","n","/","S","D","P">>
    /\ result = MakeTuple(<<MakeBinary(<<"A","p","p","l","i","c","a","t","i","o","n">>),
                            MakeBinary(<<"S","D","P">>)>>)

\* The map of names, each under key(name), to the values unquoted; a later
\* pair of the same key replaces the earlier one.
RECURSIVE ExpectedPairs_(_, _, _, _)
ExpectedPairs_(names, values, lower, pairs) ==
    IF names = << >> THEN pairs
    ELSE ExpectedPairs_(Tail(names), Tail(values), lower,
             MapPut(pairs,
                    MakeBinary(IF lower THEN ToLowerASCII(Head(names))
                               ELSE Head(names)),
                    MakeBinary(Head(values).value)))

ExpectedMap(names, values, lower) ==
    MakeMap(ExpectedPairs_(names, values, lower, << >>))

\* C17: the parameter map of token;name=value;... has every name
\* lower-cased as key and every value with its case kept and its matching
\* quotes removed; no parameters give the empty map.
C17_ParameterNamesLowerCased ==
    Returned("ParseSingleTokenParams") =>
        \A sh \in ParamsShapes :
            Len(sh[1]) = Len(sh[2]) /\ raw_message = ParamsValue(sh[1], sh[2]) =>
                result = MakeTuple(<<MakeBinary(<<"a">>),
                                     ExpectedMap(sh[1], sh[2], TRUE)>>)

\* a;Tag=V has been parsed into the map with key "Tag".
C17_NameKeptAsWritten ==
    /\ Returned("ParseSingleTokenParams")
    /\ raw_message = <<"a",";","T","a","g","=","V">>
    /\ result = MakeTuple(<<MakeBinary(<<"a">>),
                   MakeMap(<< <<MakeBinary(<<"T","a","g">>), MakeBinary(<<"V">>)>> >>)>>)

\* C18: the map ParseOnlyAuthParams returns holds every value unquoted:
\* without surrounding quotes, backslash escapes resolved.
C18_AuthValuesUnquoted ==
    Returned("ParseOnlyAuthParams") =>
        \A sh \in AuthShapes :
            Len(sh[1]) = Len(sh[2]) /\ raw_message = AuthParamsValue(sh[1], sh[2]) =>
                result = ExpectedMap(sh[1], sh[2], FALSE)

\* realm="V" has been parsed into the map with value "V" in its quotes.
C18_QuotesKept ==
    /\ Returned("ParseOnlyAuthParams")
    /\ raw_message = <<"r","e","a","l","m","=","\"","V","\"">>
    /\ result = MakeMap(<< <<MakeBinary(<<"r","e","a","l","m">>),
                             MakeBinary(<<"\"","V","\"">>)>> >>)

\* C19: ParseSchemeAndAuthParams returns a one-element list holding
\* (scheme, params map), so that a second header of the same name merges
\* into a two-element list; an empty or LWS-only value gives
\* missing_auth_scheme.
C19_SchemeResultIsOneElementList ==
    Returned("ParseSchemeAndAuthParams") =>
        IF OnlyLWS(raw_message) THEN result = MakeAtom("missing_auth_scheme")
        ELSE /\ IsList(result)
             /\ Len(Val(result)) = 1
             /\ Tag(Val(result)[1]) = "tuple"
             /\ Len(Val(Val(result)[1])) = 2
             /\ Tag(Val(Val(result)[1])[1]) = "bin"
             /\ Tag(Val(Val(result)[1])[2]) = "map"
             /\ MergeHeader(<< <<MakeAtom("authorization"), result>> >>,
                            MakeAtom("authorization"), result)
                  = <<TRUE, << <<MakeAtom("authorization"),
                                 MakeList(Val(result) \o Val(result))>> >> >>

\* ParseSchemeAndAuthParams has returned a bare (scheme, map) tuple for
\* Digest n=v, which a second header of the name cannot be merged with.
C19_BareTupleReturned ==
    /\ Returned("ParseSchemeAndAuthParams")
    /\ raw_message = <<"D","i","g","e","s","t",SP,"n","=","v">>
    /\ result = MakeTuple(<<MakeBinary(<<"D","i","g","e","s","t">>),
                   MakeMap(<< <<MakeBinary(<<"n">>), MakeBinary(<<"v">>)>> >>)>>)
    /\ MergeHeader(<< <<MakeAtom("authorization"), result>> >>,
                   MakeAtom("authorization"), result)
         = <<FALSE, ErrorPair("multiple_definition")>>

\* C20: ParseHostAndPort on [address] and on [address]:port succeeds and
\* sets *host to the address without the brackets.
C20_BracketsStripped ==
    Returned("ParseHostAndPort") =>
        \A a \in HostAddresses :
            /\ raw_message = Bracketed(a)
                 => Val(result) = HostPort(TRUE, a, -1)
            /\ raw_message = Bracketed(a) \o <<":","9","0">>
                 => Val(result) = HostPort(TRUE, a, 90)

\* ParseHostAndPort has set *host to [::1], brackets included, for [::1]:90.
C20_BracketsKept ==
    /\ Returned("ParseHostAndPort")
    /\ raw_message = <<"[",":",":","1","]",":","9","0">>
    /\ Val(result) = HostPort(TRUE, <<"[",":",":","1","]">>, 90)

-----------------------------------------------------------------------------
(* Host and port *)

\* digits without its leading zeros.
RECURSIVE StripZeros(_)
StripZeros(digits) ==
    IF Len(digits) > 1 /\ Head(digits) = "0" THEN StripZeros(Tail(digits))
    ELSE digits

\* p is a non-empty run of digits whose value an int holds.
IsPort(p) == IsDigits(p) /\ FitsInt(StripZeros(p))

\* What follows the host: nothing, or : and a port.
IsPortPart(rest) == rest = << >> \/ (Head(rest) = ":" /\ IsPort(Tail(rest)))

\* s is host or host:port, the host a [...] literal or a run without ":".
IsHostPort(s) ==
    /\ s # << >>
    /\ IF Head(s) = "["
       THEN \E k \in 2..Len(s) :
                /\ s[k] = "]"
                /\ \A j \in 2..(k - 1) : s[j] # "]"
                /\ IsPortPart(SubSeq(s, k + 1, Len(s)))
       ELSE \E k \in 0..Len(s) :
                /\ \A j \in 1..k : s[j] # ":"
                /\ IsPortPart(SubSeq(s, k + 1, Len(s)))

\* The port s names after its last ":", or -1 when s names none.
PortOf(s) ==
    IF \E k \in 1..Len(s) : s[k] = ":" /\ IsPort(SubSeq(s, k + 1, Len(s)))
    THEN DecimalValue(SubSeq(s,
             (CHOOSE k \in 1..Len(s) :
                 s[k] = ":" /\ IsPort(SubSeq(s, k + 1, Len(s)))) + 1,
             Len(s)))
    ELSE -1

\* C21: ParseHostAndPort succeeds exactly on host and host:port, the host
\* a [...] literal or a run without ":", the port a non-empty run of digits
\* that fits an int; it then sets *port to the port or to -1; when it fails
\* *host is left as it was.
C21_HostPortAcceptedExactly ==
    [][CallParseHostAndPort =>
          /\ Val(result').ok <=> IsHostPort(raw_message)
          /\ Val(result').ok => Val(result').port = PortOf(raw_message)
          /\ ~Val(result').ok => Val(result').host = Val(result).host]_vars

\* ParseHostAndPort has succeeded on a: with port -1.
C21_EmptyPortAccepted ==
    /\ Returned("ParseHostAndPort")
    /\ raw_message = <<"a", ":">>
    /\ Val(result).ok
    /\ Val(result).port = -1

-----------------------------------------------------------------------------
(* Utilities *)

\* The longest run of bytes of class that s starts with.
RECURSIVE LeadingRun(_, _)
LeadingRun(s, class) ==
    IF s # << >> /\ Head(s) \in class
    THEN <<Head(s)>> \o LeadingRun(Tail(s), class)
    ELSE << >>

Drop(s, n) == SubSeq(s, n + 1, Len(s))

\* What C22 says of the input lead sign digits rest, lead a whitespace
\* run, digits the longest digit run: <<returned bool, *output>>.
ExpectedNumber(lead, negative, digits, rest) ==
    IF digits = << >> THEN <<FALSE, 0>>
    ELSE IF negative
    THEN IF StripZeros(digits) = <<"2","1","4","7","4","8","3","6","4","8">>
         THEN <<lead = << >> /\ rest = << >>, IntMin>>
         ELSE IF ~FitsInt(StripZeros(digits)) THEN <<FALSE, IntMin>>
         ELSE <<lead = << >> /\ rest = << >>, -DecimalValue(StripZeros(digits))>>
    ELSE IF ~FitsInt(StripZeros(digits)) THEN <<FALSE, IntMax>>
    ELSE <<lead = << >> /\ rest = << >>, DecimalValue(StripZeros(digits))>>

ExpectedSigned(lead, negative, unsigned) ==
    ExpectedNumber(lead, negative, LeadingRun(unsigned, DigitChars),
                   Drop(unsigned, Len(LeadingRun(unsigned, DigitChars))))

ExpectedStringToInt(s) ==
    LET lead == LeadingRun(s, {SP, TAB, CR, LF})
        t    == Drop(s, Len(lead))
    IN  IF t # << >> /\ Head(t) \in {"-", "+"}
        THEN ExpectedSigned(lead, Head(t) = "-", Tail(t))
        ELSE ExpectedSigned(lead, FALSE, t)

\* C22: StringToInt returns true exactly on an optional sign and one or
\* more digits within [INT_MIN, INT_MAX], with *output the value; it returns
\* false with INT_MAX on overflow, INT_MIN on underflow, the number parsed
\* so far on trailing bytes or leading whitespace, 0 when no digit starts
\* the number.
C22_StringToIntPerfectOrBestEffort ==
    Returned("StringToInt") => Val(result) = ExpectedStringToInt(raw_message)

\* StringToInt has returned true with INT_MIN for -2147483648, and false
\* with INT_MAX for 2147483648.
C22_EndsOfIntConverted ==
    /\ Returned("StringToInt")
    /\ \/ /\ raw_message = <<"-","2","1","4","7","4","8","3","6","4","8">>
          /\ Val(result) = <<TRUE, IntMin>>
       \/ /\ raw_message = <<"2","1","4","7","4","8","3","6","4","8">>
          /\ Val(result) = <<FALSE, IntMax>>

\* The byte at i of body follows an odd run of backslashes.
RECURSIVE BackslashesBefore(_, _)
BackslashesBefore(body, i) ==
    IF i > 1 /\ body[i - 1] = "\\" THEN 1 + BackslashesBefore(body, i - 1) ELSE 0

IsEscaped(body, i) == BackslashesBefore(body, i) % 2 = 1

\* body with every pair \x replaced by x; a backslash that ends body
\* without a byte to pair with is kept when keep_last, else dropped.
RECURSIVE Unpaired(_, _)
Unpaired(body, keep_last) ==
    IF body = << >> THEN << >>
    ELSE IF Head(body) = "\\"
    THEN IF Len(body) = 1 THEN (IF keep_last THEN body ELSE << >>)
         ELSE <<body[2]>> \o Unpaired(Drop(body, 2), keep_last)
    ELSE <<Head(body)>> \o Unpaired(Tail(body), keep_last)

\* s is at least two bytes between two copies of one quote character.
IsQuoted(s) == Len(s) >= 2 /\ IsQuote(s[1]) /\ s[1] = s[Len(s)]

Body(s) == SubSeq(s, 2, Len(s) - 1)

\* What the claim says of Unquote and of strict unquote, a final unpaired
\* backslash of the body kept or dropped.
UnquoteLaw(keep_last) ==
    /\ Returned("Unquote") =>
          /\ (raw_message = << >> \/ ~IsQuote(raw_message[1]))
                => Val(result) = raw_message
          /\ IsQuoted(raw_message)
                => Val(result) = Unpaired(Body(raw_message), keep_last)
          /\ Len(Val(result)) <= Len(raw_message)
    /\ Returned("StrictUnquote") /\ IsQuoted(raw_message) =>
          /\ Val(result)[1] <=>
                /\ raw_message[1] = "\""
                /\ \A i \in 1..Len(Body(raw_message)) :
                      Body(raw_message)[i] = "\"" => IsEscaped(Body(raw_message), i)
                /\ ~IsEscaped(Body(raw_message), Len(Body(raw_message)) + 1)
          /\ Val(result)[1]
                => Val(result)[2] = Unpaired(Body(raw_message), keep_last)

\* C23, as stated: Unquote is the identity on a range that does not start
\* with a quote; between two copies of one quote it returns the enclosed
\* bytes with every pair \x replaced by x; the result is never longer than
\* the input; strict unquote fails on a quote other than ", on an
\* unescaped quote inside the body and on an escaped terminal quote.
C23_UnquoteReplacesPairs == UnquoteLaw(TRUE)

\* C23, amended: the same, and a backslash that ends the enclosed bytes
\* with no byte to pair with is dropped.
C23_UnquoteDropsLoneBackslash == UnquoteLaw(FALSE)

\* Unquote has returned a for "a\" and a"a for "a\"a".
C23_BackslashesResolved ==
    /\ Returned("Unquote")
    /\ \/ /\ raw_message = <<"\"", "a", "\\", "\"">>
          /\ Val(result) = <<"a">>
       \/ /\ raw_message = <<"\"", "a", "\\", "\"", "a", "\"">>
          /\ Val(result) = <<"a", "\"", "a">>


-----------------------------------------------------------------------------
(* Tokenizer *)

\* C24: on a tokenizer constructed with begin <= end, every call of
\* Skip(set), SkipNotIn(set), SkipTo(c), Skip() and Skip(n), for any n,
\* leaves begin <= current <= end, never moves the cursor backwards and
\* reads no position at or past end; Skip() and Skip(n) at the end of the
\* input leave the cursor at end.
C24_CursorStaysInRange ==
    [][ /\ hit.begin <= hit'.current
        /\ hit'.current <= hit.end
        /\ hit.current <= hit'.current
        /\ \A p \in hit'.read : hit.begin <= p /\ p < hit.end
        /\ (hit.current = hit.end /\ pc' \in {"Skip()", "Skip(n)"})
               => hit'.current = hit.end
      ]_vars

\* Skip(n) was asked for more bytes than a non-empty input holds and
\* stopped at end.
C24_SkipStoppedAtEnd ==
    /\ pc = "Skip(n)"
    /\ input = <<MaxToken + 2>>
    /\ hit.begin < hit.end
    /\ hit.end - hit.begin < MaxToken + 2
    /\ hit.current = hit.end

-----------------------------------------------------------------------------
(* Iterators *)

\* C25: once NameValuePairsIterator::GetNext has hit a malformed pair,
\* valid() is false from then on and every later GetNext returns false,
\* even when well-formed pairs follow.
C25_InvalidIteratorStops ==
    [][ (pc = "NameValuePairsIterator" /\ ~hit.valid)
            => (~hit'.valid /\ result' = <<"bool", FALSE>>) ]_vars

\* GetNext returned true on an iterator that an earlier pair invalidated.
C25_PairAfterMalformed ==
    /\ pc = "NameValuePairsIterator"
    /\ ~hit.valid
    /\ result = <<"bool", TRUE>>

\* The ValuesIterator has returned false: its input is used up.
Exhausted == pc = "ValuesIterator" /\ result = <<"bool", FALSE>>

\* The range [hit.begin, hit.end) holds no quote character.
NoQuotes == \A p \in hit.begin..(hit.end - 1) : ~IsQuote(hit.s[p])

\* Position p lies in one of the ranges yielded.
InYielded(p) == \E i \in 1..Len(yielded) : yielded[i][1] <= p /\ p < yielded[i][2]

\* C27: every range ValuesIterator::GetNext yields is non-empty, lies
\* inside the input range and has no SP or TAB as its first or last byte;
\* the ranges come in document order with a delimiter between them, and
\* once the input is used up every byte that is neither whitespace nor the
\* delimiter was yielded, so that only empty and whitespace-only values
\* were skipped.
C27_YieldedValuesTrimmed ==
    pc = "ValuesIterator" =>
        /\ \A i \in 1..Len(yielded) :
               /\ hit.begin <= yielded[i][1]
               /\ yielded[i][1] < yielded[i][2]
               /\ yielded[i][2] <= hit.end
               /\ ~IsLWS(hit.s[yielded[i][1]])
               /\ ~IsLWS(hit.s[yielded[i][2] - 1])
               /\ NoQuotes =>
                      \A p \in yielded[i][1]..(yielded[i][2] - 1) :
                          hit.s[p] # hit.delimiter
        /\ \A i \in 1..(Len(yielded) - 1) : yielded[i][2] < yielded[i + 1][1]
        /\ Exhausted =>
               \A p \in hit.begin..(hit.end - 1) :
                   (~IsLWS(hit.s[p]) /\ hit.s[p] # hit.delimiter) => InYielded(p)

\* The input is used up, it held a whitespace-only value between two
\* delimiters, and values around it were yielded.
C27_BlankValueSkipped ==
    /\ Exhausted
    /\ NoQuotes
    /\ Len(yielded) >= 1
    /\ \E p \in hit.begin..(hit.end - 3) :
           /\ hit.s[p] = hit.delimiter
           /\ IsLWS(hit.s[p + 1])
           /\ hit.s[p + 2] = hit.delimiter

-----------------------------------------------------------------------------
(* Error codes *)

\* The codes of the error handling design, by category.
ErrorCodes ==
    { "invalid_line_break",
      "missing_method", "missing_uri", "missing_status_code",
      "empty_status_code", "invalid_status_code", "missing_version_spec",
      "missing_version", "malformed_version", "malformed_version_number",
      "empty_value", "invalid_token", "missing_subtype",
      "unknown_version", "missing_sent_protocol", "missing_sentby",
      "invalid_sentby",
      "invalid_uri", "unclosed_laquot", "unclosed_qstring", "missing_address",
      "invalid_char_found",
      "invalid_digits", "invalid_sequence", "missing_sequence",
      "missing_timestamp", "invalid_timestamp", "missing_major",
      "missing_or_invalid_major", "invalid_minor", "missing_delta_secs",
      "missing_or_invalid_delta_secs",
      "missing_auth_scheme",
      "empty_input", "invalid_code", "empty_warn_agent", "missing_warn_text",
      "invalid_warn_text",
      "empty_date", "invalid_date",
      "invalid_comment",
      "multiple_definition",
      "no_memory" }

\* The value handed to ParseVersion starts with SIP in some case.
StartsWithSip ==
    /\ Len(raw_message) >= 3
    /\ LowerCaseEqualsASCII(SubSeq(raw_message, 1, 3), <<"s", "i", "p">>)

\* C26: every error code a parser returns is one of the enumerated codes,
\* and a version that does not start with SIP yields missing_version_spec.
C26_ErrorCodesEnumerated ==
    /\ ResultCode # "" => ResultCode \in ErrorCodes
    /\ (Returned("ParseVersion") /\ ~StartsWithSip)
           => result = MakeAtom("missing_version_spec")

\* ParseVersion has returned on a version that does not start with SIP.
C26_VersionWithoutSip ==
    /\ Returned("ParseVersion")
    /\ ~StartsWithSip
    /\ IsAtom(result)

-----------------------------------------------------------------------------
(* List parsers *)

\* The pieces of s between its commas, from position from on.
RECURSIVE PiecesFrom(_, _)
PiecesFrom(s, from) ==
    LET Cut(comma) ==
            IF comma > Len(s) THEN <<Range(s, from, Len(s) + 1)>>
            ELSE <<Range(s, from, comma)>> \o PiecesFrom(s, comma + 1)
    IN  Cut(Find(s, from, Len(s) + 1, ","))

\* The non-empty values of s: its pieces that are not blank, without the
\* whitespace around them.
RECURSIVE NonEmptyValues(_)
NonEmptyValues(pieces) ==
    IF pieces = << >> THEN << >>
    ELSE IF OnlyLWS(Head(pieces)) THEN NonEmptyValues(Tail(pieces))
    ELSE <<StripSP(Head(pieces))>> \o NonEmptyValues(Tail(pieces))

\* What the element parser of the list parser that returned makes of v.
ElementResult(v) ==
    IF Returned("ParseMultipleTokens") THEN ParseSingleToken(v)
    ELSE IF Returned("ParseMultipleTokenParams") THEN ParseSingleTokenParams(v)
    ELSE ParseSingleTypeSubtypeParams(v)

ElementResults ==
    LET Each(values) == [i \in 1..Len(values) |-> ElementResult(values[i])]
    IN  Each(NonEmptyValues(PiecesFrom(raw_message, 1)))

\* Going through the element results in document order: the first error
\* code met, else the list of them all.
RECURSIVE FirstErrorOrList(_, _)
FirstErrorOrList(elems, done) ==
    IF elems = << >> THEN MakeList(done)
    ELSE IF IsAtom(Head(elems)) THEN Head(elems)
    ELSE FirstErrorOrList(Tail(elems), Append(done, Head(elems)))

ListReturned ==
    \/ Returned("ParseMultipleTokens")
    \/ Returned("ParseMultipleTokenParams")
    \/ Returned("ParseMultipleTypeSubtypeParams")

\* C28: a list parser returns the error code of the first value, in
\* document order, on which its element parser fails, and no partial list;
\* when none fails it returns the list of the element results in document
\* order, one per non-empty value.
C28_FirstErrorOrWholeList ==
    ListReturned => result = FirstErrorOrList(ElementResults, << >>)

\* A list parser returned an error code although its first value parses,
\* and a later value fails with another code than the one returned.
C28_LaterErrorNotReturned ==
    /\ ListReturned
    /\ IsAtom(result)
    /\ Len(ElementResults) >= 3
    /\ ~IsAtom(ElementResults[1])
    /\ IsAtom(ElementResults[Len(ElementResults)])
    /\ ElementResults[Len(ElementResults)] # result

-----------------------------------------------------------------------------
(* Assembled header block *)

\* What byte i of s leaves in the assembled block: nothing for a \r, nothing
\* for a \n that ends the input or stands before SP or TAB, a \n for any
\* other \n, and the byte itself otherwise.
AssembledByte(s, i) ==
    IF s[i] = CR THEN << >>
    ELSE IF s[i] = LF
    THEN IF i = Len(s) \/ IsLWS(s[i + 1]) THEN << >> ELSE <<LF>>
    ELSE <<s[i]>>

\* The physical lines of s in order, each terminator replaced as above.
AssembledLines(s) == Flatten([i \in 1..Len(s) |-> AssembledByte(s, i)])

\* C29: when AssembleRawHeaders succeeds its output holds no \r, is no
\* longer than the input, and is the input's physical lines in order with
\* each line terminator replaced by one \n, except that a terminator
\* before SP or TAB is removed and a terminator that ends the input adds
\* nothing.
C29_AssembledIsLinesJoined ==
    (pc = "done" /\ AssembleRawHeaders(raw_message).ok) =>
        /\ \A i \in 1..Len(input) : input[i] # CR
        /\ Len(input) <= Len(raw_message)
        /\ input = AssembledLines(raw_message)

\* An input with a terminator before a new line, one before a
\* continuation line and one at its very end has been assembled.
C29_FoldAndFinalTerminatorAssembled ==
    /\ pc = "done"
    /\ AssembleRawHeaders(raw_message).ok
    /\ Len(raw_message) >= 2
    /\ raw_message[Len(raw_message)] = LF
    /\ \E i \in 1..(Len(raw_message) - 1) :
           raw_message[i] = LF /\ IsLWS(raw_message[i + 1])
    /\ \E i \in 1..(Len(raw_message) - 1) :
           raw_message[i] = LF /\ raw_message[i + 1] = "a"
    /\ Len(input) = Len(raw_message) - 2

\* C30: AssembleRawHeaders reads no byte at or past the end of its input,
\* the look-ahead for \n after a final \r included.
C30_AssemblerReadsInsideInput ==
    pc = "done" => ~AssembleRawHeaders(raw_message).oob

\* parse returned invalid_line_break on an input ending in \r, from the
\* byte it found at input.end().
C30_LookAheadReadEnd ==
    /\ pc = "done"
    /\ raw_message # << >>
    /\ raw_message[Len(raw_message)] = CR
    /\ AssembleRawHeaders(raw_message).oob
    /\ result = ErrorPair("invalid_line_break")

=============================================================================
